---------------------------- MODULE Spec2Model ----------------------------
(***************************************************************************)
(* Model of the plan execution engine of agent-core:                       *)
(*   ea_multiagent.py  (invoke, execute_planning_phase, execute_plan,      *)
(*                      execute_step and the phases it calls),             *)
(*   schema_list.py    (validators and helpers),                           *)
(*   utils.py          (call_tool_set_in_sync and the MCP unwrapping),     *)
(* and of three functions of serverless-backend:                           *)
(*   google_calendar/auth.py  (get_access_token),                          *)
(*   api/validate_invite.py   (validate_invite),                           *)
(*   utils/gatekeeper.py      (gatekeeper).                                *)
(*                                                                         *)
(* Python values are modelled as follows.  A dict is a TLA+ record; a key  *)
(* is present exactly when it is in the DOMAIN of the record.  None is     *)
(* the string None where the field holds a string and the record NoneObj   *)
(* where it holds a dict.  A call that can raise returns either            *)
(* [ok |-> TRUE, val |-> v] or [ok |-> FALSE, err |-> str(e)].             *)
(* The text returned by a sub-agent (after clean_agent_json_response) and  *)
(* the text of an MCP content item is [json |-> FALSE, raw |-> s] when     *)
(* json.loads rejects it and [json |-> TRUE, data |-> d] when json.loads   *)
(* returns d.                                                              *)
(*                                                                         *)
(* Nine specifications: Spec runs invoke from the payload to its return;   *)
(* SpecGateway calls update_tool_set_in_sync and call_tool_set_in_sync on  *)
(* their own, on every shape of gateway answer; SpecSanitizer calls        *)
(* clean_agent_json_response on texts given character by character;        *)
(* SpecValidator calls validate_execution_plan and create_current_step on  *)
(* plan data and steps of every shape; SpecStep calls execute_step on one  *)
(* step, with emails of several subjects and every sub-agent answer;       *)
(* SpecConcurrent interleaves two runs of invoke in one process;           *)
(* SpecAuth calls get_access_token on tokens of every age; SpecInvite      *)
(* interleaves two validate_invite requests on one allocation table;       *)
(* SpecGatekeeper calls gatekeeper on SES events of every shape.           *)
(***************************************************************************)
EXTENDS Integers, Sequences, FiniteSets, TLC

VARIABLES
    pc,                 \* position of invoke: "start", "planning", "executing", "done"
    ACCESS_TOKEN,       \* module global, set once before app.run()
    TOOL_SET,           \* module global, the tool list loaded before app.run()
    payload,            \* the argument of invoke
    plan_reply,         \* what the planning agent answered, or NoneObj
    email_data,         \* EmailPayload built by validate_email_payload, or NoneObj
    execution_plan,     \* ExecutionPlan returned by the planning phase, or NoneObj
    validated_steps,    \* the steps as validate_execution_plan returned them
    execution_results,  \* the list execute_plan appends to
    executed,           \* the steps execute_step was called with, in call order
    ncalls,             \* collaborator calls made during this run, per collaborator
    last,               \* what the latest execute_step call did
    ret,                \* the value invoke returned, or NoneObj
    fcall,              \* a direct call of one function: its name and arguments, or NoneObj
    outcome,            \* what that call did and returned, or NoneObj
    runs,               \* the runs of invoke going on side by side, or NoneObj
    agents_table,       \* the agents allocation table: its items, keyed by agent_email
    requests            \* the validate_invite requests going on, or NoneObj

vars == <<pc, ACCESS_TOKEN, TOOL_SET, payload, plan_reply, email_data, execution_plan,
          validated_steps, execution_results, executed, ncalls, last, ret, fcall, outcome,
          runs, agents_table, requests>>

\* Longest plan the planner returns in the model.
MaxSteps == 3

None == "None"
NoneObj == [none |-> TRUE]

Ok(v) == [ok |-> TRUE, val |-> v]
Raise(msg) == [ok |-> FALSE, err |-> msg]

\* str(i) for a step index
Digit == <<"0", "1", "2", "3", "4", "5", "6", "7", "8", "9">>
RECURSIVE Str(_)
Str(n) == IF n < 10 THEN Digit[n + 1] ELSE Str(n \div 10) \o Digit[(n % 10) + 1]

\* `x or ""`, `not x` on an optional string
Falsy(s) == s = None \/ s = ""
Get(d, k, default) == IF k \in DOMAIN d THEN d[k] ELSE default

\* json.loads of a text
JsonLoads(text) ==
    IF text.json THEN Ok(text.data)
    ELSE Raise("Expecting value: line 1 column 1 (char 0)")

-----------------------------------------------------------------------------
(* schema_list.py *)

\* A JSON value that is either a list or a scalar, for `to` and `cc`.
AsList(v) == IF v.list THEN v.v ELSE <<v.v>>

EmailRequiredFields == <<"from", "to", "cc", "agent_email", "subject", "body">>

\* The first element of the sequence `fields` that is no key of d, or None.
FirstMissing(fields, d) ==
    LET miss == {i \in 1..Len(fields) : fields[i] \notin DOMAIN d}
    IN  IF miss = {} THEN None
        ELSE fields[CHOOSE i \in miss : \A j \in miss : i <= j]

validate_email_payload(p) ==
    LET m == FirstMissing(EmailRequiredFields, p)
    IN  IF m # None THEN Raise("Missing required field: " \o m)
        ELSE Ok([from_email  |-> p.from,
                 to          |-> AsList(p.to),
                 cc          |-> AsList(p.cc),
                 agent_email |-> p.agent_email,
                 subject     |-> p.subject,
                 body        |-> p.body])

StepRequiredFields == <<"executionOrder", "intent", "stepOutcome", "context">>

\* The check of one step_data (index i, 0-based) in validate_execution_plan:
\* None when the step passes, the message of the ValueError otherwise.
StepProblem(step_data, i) ==
    LET m == FirstMissing(StepRequiredFields, step_data)
    IN  IF m # None
        THEN "Missing required field in step " \o Str(i) \o ": " \o m
        ELSE IF step_data.intent = "tool_execution" /\ "toolName" \notin DOMAIN step_data
        THEN "Missing toolName for tool_execution step " \o Str(i)
        ELSE None

\* PlanStep keeping the toolName of tool_execution steps only.
PlanStepToolOnly(step_data) ==
    [executionOrder |-> step_data.executionOrder,
     intent         |-> step_data.intent,
     stepOutcome    |-> step_data.stepOutcome,
     context        |-> step_data.context,
     toolName       |-> IF step_data.intent = "tool_execution"
                        THEN Get(step_data, "toolName", None) ELSE None]

PlanStep(step_data) ==
    [executionOrder |-> step_data.executionOrder,
     intent         |-> step_data.intent,
     stepOutcome    |-> step_data.stepOutcome,
     context        |-> step_data.context,
     toolName       |-> Get(step_data, "toolName", None)]

\* validate_execution_plan keeping the steps that precede the first malformed one.
validate_execution_plan_partial(plan_data) ==
    IF "goal" \notin DOMAIN plan_data THEN Raise("Missing required field: goal")
    ELSE IF "deliverable" \notin DOMAIN plan_data
    THEN Raise("Missing required field: deliverable")
    ELSE IF "steps" \notin DOMAIN plan_data THEN Raise("Missing or invalid field: steps")
    ELSE LET sd   == plan_data.steps
             good == {n \in 0..Len(sd) : \A i \in 1..n : StepProblem(sd[i], i - 1) = None}
             n    == CHOOSE n \in good : \A m \in good : m <= n
         IN  Ok([goal        |-> plan_data.goal,
                 deliverable |-> plan_data.deliverable,
                 steps       |-> [i \in 1..n |-> PlanStep(sd[i])]])

validate_execution_plan(plan_data) ==
    IF "goal" \notin DOMAIN plan_data THEN Raise("Missing required field: goal")
    ELSE IF "deliverable" \notin DOMAIN plan_data
    THEN Raise("Missing required field: deliverable")
    ELSE IF "steps" \notin DOMAIN plan_data THEN Raise("Missing or invalid field: steps")
    ELSE LET sd  == plan_data.steps
             bad == {i \in 1..Len(sd) : StepProblem(sd[i], i - 1) # None}
         IN  IF bad # {}
             THEN LET i == CHOOSE i \in bad : \A j \in bad : i <= j
                  IN  Raise(StepProblem(sd[i], i - 1))
             ELSE Ok([goal        |-> plan_data.goal,
                      deliverable |-> plan_data.deliverable,
                      steps       |-> [i \in 1..Len(sd) |-> PlanStep(sd[i])]])

ResponseRequiredFields == <<"toolName", "status">>

validate_request_builder_response(response_data) ==
    LET m == FirstMissing(ResponseRequiredFields, response_data)
    IN  IF m # None THEN Raise("Missing required field: " \o m)
        ELSE IF response_data.status = "error" /\ "error" \notin DOMAIN response_data
        THEN Raise("Error status requires error message")
        ELSE Ok([toolName   |-> response_data.toolName,
                 status     |-> response_data.status,
                 apiPayload |-> Get(response_data, "apiPayload", NoneObj),
                 error      |-> Get(response_data, "error", None)])

validate_communication_response(response_data) ==
    LET m == FirstMissing(ResponseRequiredFields, response_data)
    IN  IF m # None THEN Raise("Missing required field: " \o m)
        ELSE IF response_data.status = "error" /\ "error" \notin DOMAIN response_data
        THEN Raise("Error status requires error message")
        ELSE Ok([toolName   |-> response_data.toolName,
                 status     |-> response_data.status,
                 apiPayload |-> Get(response_data, "apiPayload", NoneObj),
                 error      |-> Get(response_data, "error", None)])

\* create_step_execution_result that sets toolCalled for every successful step.
create_step_execution_result_any_intent(step, status, tool_response, error) ==
    [status         |-> status,
     executionOrder |-> step.executionOrder,
     stepOutcome    |-> step.stepOutcome,
     context        |-> step.context,
     toolName       |-> IF Falsy(step.toolName) THEN "" ELSE step.toolName,
     toolCalled     |-> (status = "success"),
     toolResponse   |-> tool_response,
     error          |-> error]

create_step_execution_result(step, status, tool_response, error) ==
    [status         |-> status,
     executionOrder |-> step.executionOrder,
     stepOutcome    |-> step.stepOutcome,
     context        |-> step.context,
     toolName       |-> IF Falsy(step.toolName) THEN "" ELSE step.toolName,
     toolCalled     |-> (status = "success" /\ step.intent = "tool_execution"),
     toolResponse   |-> tool_response,
     error          |-> error]

\* create_current_step that looks at the toolName only.
create_current_step_any_intent(step) ==
    IF Falsy(step.toolName)
    THEN Raise("CurrentStep can only be created from tool_execution or communicate steps with toolName")
    ELSE Ok([executionOrder |-> step.executionOrder,
             stepOutcome    |-> step.stepOutcome,
             context        |-> step.context,
             toolName       |-> step.toolName])

create_current_step(step) ==
    IF step.intent \notin {"tool_execution", "communicate"} \/ Falsy(step.toolName)
    THEN Raise("CurrentStep can only be created from tool_execution or communicate steps with toolName")
    ELSE Ok([executionOrder |-> step.executionOrder,
             stepOutcome    |-> step.stepOutcome,
             context        |-> step.context,
             toolName       |-> step.toolName])

-----------------------------------------------------------------------------
(* utils.py: clean_agent_json_response on a text given as the sequence of
   its characters *)

\* The backtick, the one character a TLA+ string cannot hold.
Backtick == "U+0060"

\* What \s matches and what str.strip removes.
IsWhitespace(c) == c \in {" ", "\n", "\t"}

\* re.IGNORECASE on the letters of the tag.
IgnoreCase(c) ==
    CASE c = "J" -> "j" [] c = "S" -> "s" [] c = "O" -> "o" [] c = "N" -> "n" [] OTHER -> c

\* Whether the three characters of a fence start at index i of s.
FenceAt(s, i) ==
    /\ i >= 1
    /\ i + 2 <= Len(s)
    /\ \A k \in i..(i + 2) : s[k] = Backtick

\* The first index from i on that holds no whitespace, Len(s) + 1 if there is none:
\* where a greedy \s* that starts at i ends.
SkipWhitespace(s, i) ==
    CHOOSE k \in i..(Len(s) + 1) :
        /\ \A j \in i..(k - 1) : IsWhitespace(s[j])
        /\ k <= Len(s) => ~IsWhitespace(s[k])

\* re.sub(r'^```(?:json)?\s*\n?', '', s, flags=re.IGNORECASE): ^ is the start of
\* the text only; after the greedy \s* the \n? has nothing left to match.
RemoveOpeningMarker(s) ==
    IF ~FenceAt(s, 1) THEN s
    ELSE LET tagged == /\ Len(s) >= 7
                       /\ [k \in 1..4 |-> IgnoreCase(s[k + 3])] = <<"j", "s", "o", "n">>
             rest == SkipWhitespace(s, IF tagged THEN 8 ELSE 4)
         IN  SubSeq(s, rest, Len(s))

\* Where a match of \n?\s*``` that starts at index i ends if $ holds there (at the
\* end of the text or before a newline that ends it), else 0.
ClosingMatchEnd(s, i) ==
    LET k == SkipWhitespace(s, i)
    IN  IF /\ FenceAt(s, k)
           /\ \/ k + 3 = Len(s) + 1
              \/ k + 3 = Len(s) /\ s[Len(s)] = "\n"
        THEN k + 3
        ELSE 0

\* re.sub(r'\n?\s*```$', '', s): the leftmost match is removed; no second match
\* can follow it.
RemoveClosingMarker(s) ==
    LET starts == {i \in 1..Len(s) : ClosingMatchEnd(s, i) # 0}
    IN  IF starts = {} THEN s
        ELSE LET i == CHOOSE x \in starts : \A y \in starts : x <= y
             IN  SubSeq(s, 1, i - 1) \o SubSeq(s, ClosingMatchEnd(s, i), Len(s))

\* str.lstrip in the place of str.strip
StripLeading(s) == SubSeq(s, SkipWhitespace(s, 1), Len(s))

\* str.strip
Strip(s) ==
    LET first == SkipWhitespace(s, 1)
        last_ == CHOOSE k \in 0..Len(s) :
                    /\ \A j \in (k + 1)..Len(s) : IsWhitespace(s[j])
                    /\ k >= 1 => ~IsWhitespace(s[k])
    IN  SubSeq(s, first, last_)

\* A Python value given to clean_agent_json_response: a str with its characters,
\* or an object of another type with its value and the characters str() makes
\* of it.
StrValue(s) == [type |-> "str", chars |-> s]
ObjectValue(type, value, str) == [type |-> type, value |-> value, str |-> str]

\* str(x): a str is itself, any other object gives its string form.
PyStr(x) == IF x.type = "str" THEN x.chars ELSE x.str

\* clean_agent_json_response: response_text is str(agent_result), a str
\* whatever the argument was, so none of the hasattr tests holds and the
\* isinstance tests pass; the value returned is always a str, given here as
\* its characters.
clean_agent_json_response(agent_result) ==
    LET response_text == PyStr(agent_result)
    IN  IF response_text = <<>> THEN response_text
        ELSE Strip(RemoveClosingMarker(RemoveOpeningMarker(response_text)))

\* json.loads on a sequence of characters: whitespace between the tokens is
\* skipped; the documents known are {} and {"a":1}.
JsonLoadsChars(s) ==
    LET tokens == SelectSeq(s, LAMBDA c : ~IsWhitespace(c))
    IN  IF tokens = <<"{", "}">> THEN Ok(<<>>)
        ELSE IF tokens = <<"{", "\"", "a", "\"", ":", "1", "}">> THEN Ok([a |-> 1])
        ELSE Raise("Expecting value")

-----------------------------------------------------------------------------
(* utils.py: the tool gateway client *)

IsDict(x) == "notdict" \notin DOMAIN x
NotADict == [notdict |-> TRUE]

\* A text whose json.loads gives `data`, and a text json.loads rejects.
JsonText(raw, data) == [json |-> TRUE, raw |-> raw, data |-> data]
BadText(raw) == [json |-> FALSE, raw |-> raw]

\* The loop over content of an isError response: the message it leaves in
\* error_msg, or the KeyError of an item without text.
RECURSIVE ErrorMessageLoop(_, _, _)
ErrorMessageLoop(content, i, error_msg) ==
    IF i > Len(content) THEN Ok(error_msg)
    ELSE LET item == content[i]
         IN  IF IsDict(item) /\ Get(item, "type", None) = "text"
             THEN IF "text" \notin DOMAIN item THEN Raise("'text'")
                  ELSE IF item.text.json
                  THEN \* error_data parsed; break
                       IF IsDict(item.text.data) /\ "error" \in DOMAIN item.text.data
                       THEN Ok(item.text.data.error)
                       ELSE Ok(error_msg)
                  ELSE \* JSONDecodeError: error_msg = item["text"], the loop goes on
                       ErrorMessageLoop(content, i + 1, item.text.raw)
             ELSE ErrorMessageLoop(content, i + 1, error_msg)

\* The loop ending with `return None` when no text item was found.
TextContentOrNone(content, i) ==
    LET filled == {k \in 1..Len(content) :
                      /\ IsDict(content[k])
                      /\ Get(content[k], "type", None) = "text"
                      /\ content[k].text.raw # ""}
        item == content[CHOOSE k \in filled : \A j \in filled : k <= j]
    IN  IF filled = {} THEN Ok(NoneObj)
        ELSE IF item.text.json THEN Ok(item.text.data)
        ELSE Raise("Failed to parse JSON from MCP response")

\* The loop looking at the last item of the content only.
TextContentLast(content, i) ==
    LET item == content[Len(content)]
    IN  IF IsDict(item) /\ Get(item, "type", None) = "text" /\ item.text.raw # ""
        THEN IF item.text.json THEN Ok(item.text.data)
             ELSE Raise("Failed to parse JSON from MCP response")
        ELSE Raise("No text content found in MCP response")

\* The loop that returns the decoded text of the first non-empty text item.
RECURSIVE TextContentLoop(_, _)
TextContentLoop(content, i) ==
    IF i > Len(content) THEN Raise("No text content found in MCP response")
    ELSE LET item == content[i]
         IN  IF /\ IsDict(item)
                /\ Get(item, "type", None) = "text"
                /\ "text" \in DOMAIN item
                /\ item.text.raw # ""
             THEN IF item.text.json THEN Ok(item.text.data)
                  ELSE Raise("Failed to parse JSON from MCP response: "
                             \o JsonLoads(item.text).err \o ": line 1 column 1 (char 0)")
             ELSE TextContentLoop(content, i + 1)

\* extract_json_from_mcp_response handing back the envelope as it came.
extract_json_no_unwrap(mcp_response) == Ok(mcp_response)

extract_json_from_mcp_response(mcp_response) ==
    IF ~IsDict(mcp_response) THEN Raise("MCP response must be a dictionary")
    ELSE IF Get(mcp_response, "isError", FALSE)
    THEN LET content == Get(mcp_response, "content", <<>>)
             msg == ErrorMessageLoop(content, 1, "MCP response indicates an error")
         IN  IF msg.ok THEN Raise("MCP tool call failed: " \o msg.val) ELSE msg
    ELSE LET content == Get(mcp_response, "content", <<>>)
         IN  IF content = <<>> THEN Raise("MCP response has no content")
             ELSE TextContentLoop(content, 1)

\* api_payload.setdefault("auth_email", agent_email)
SetAuthEmailIfAbsent(api_payload, agent_email) ==
    api_payload @@ ("auth_email" :> agent_email)

\* api_payload["auth_email"] = agent_email
SetAuthEmail(api_payload, agent_email) == ("auth_email" :> agent_email) @@ api_payload

\* What the try block of call_tool_set_in_sync does with the answer `http` of
\* requests.post: [kind |-> "network_error"] stands for a RequestException
\* (no connection, timeout, non-2xx status in raise_for_status),
\* [kind |-> "json", data |-> d] for a body that response.json() decodes to d.
HandleGatewayResponse(tool_name, http) ==
    IF http.kind = "network_error"
    THEN Raise("Failed to call tool " \o tool_name \o ": " \o http.err)
    ELSE LET response_data == http.data
             inner ==
                 IF "result" \in DOMAIN response_data
                 THEN extract_json_from_mcp_response(response_data.result)
                 ELSE IF "error" \in DOMAIN response_data
                 THEN Raise("Tool call failed: "
                            \o Get(response_data.error, "message", "Unknown error"))
                 ELSE Raise("Unexpected response structure")
         IN  IF inner.ok THEN inner
             ELSE Raise("Unexpected error while calling tool " \o tool_name
                        \o ": " \o inner.err)

\* call_tool_set_in_sync that posts empty arguments when it is given no payload.
call_tool_set_empty_arguments(access_token, tool_name, api_payload, agent_email, http) ==
    IF access_token = None
    THEN [sent |-> <<>>,
          out  |-> Raise("Access token not available. Please fetch access token first.")]
    ELSE IF Falsy(tool_name)
    THEN [sent |-> <<>>, out |-> Raise("Tool name is required for tool execution.")]
    ELSE LET arguments == IF api_payload = NoneObj THEN <<>>
                          ELSE SetAuthEmail(api_payload, agent_email)
             request ==
                 [headers |-> [Authorization |-> "Bearer " \o access_token],
                  json    |-> [jsonrpc |-> "2.0",
                               id      |-> "call-tool-" \o tool_name,
                               method  |-> "tools/call",
                               params  |-> [name |-> tool_name, arguments |-> arguments]]]
         IN  [sent |-> <<request>>, out |-> HandleGatewayResponse(tool_name, http)]

\* call_tool_set_in_sync: `sent` is the sequence of requests posted to the
\* gateway, `out` the value returned or the exception raised.
call_tool_set_in_sync(access_token, tool_name, api_payload, agent_email, http) ==
    IF access_token = None
    THEN [sent |-> <<>>,
          out  |-> Raise("Access token not available. Please fetch access token first.")]
    ELSE IF Falsy(tool_name)
    THEN [sent |-> <<>>, out |-> Raise("Tool name is required for tool execution.")]
    ELSE IF api_payload = NoneObj
    THEN [sent |-> <<>>,
          out  |-> Raise("'NoneType' object does not support item assignment")]
    ELSE LET arguments == SetAuthEmail(api_payload, agent_email)
             request ==
                 [headers |-> [Authorization |-> "Bearer " \o access_token],
                  json    |-> [jsonrpc |-> "2.0",
                               id      |-> "call-tool-" \o tool_name,
                               method  |-> "tools/call",
                               params  |-> [name |-> tool_name, arguments |-> arguments]]]
         IN  [sent |-> <<request>>, out |-> HandleGatewayResponse(tool_name, http)]

\* JSON values that are no objects: null, and an array of strings.
JsonNull == NotADict @@ [type |-> "null"]
JsonList(items) == NotADict @@ [type |-> "list", items |-> items]

\* `key in x`: the key test of a dict, the membership test of a list, a
\* TypeError on null.
Contains(x, key) ==
    IF IsDict(x) THEN Ok(key \in DOMAIN x)
    ELSE IF x.type = "list" THEN Ok(\E i \in 1..Len(x.items) : x.items[i] = key)
    ELSE Raise("argument of type 'NoneType' is not iterable")

\* x[key] for a string key.
Subscript(x, key) ==
    IF IsDict(x)
    THEN IF key \in DOMAIN x THEN Ok(x[key]) ELSE Raise("'" \o key \o "'")
    ELSE IF x.type = "list" THEN Raise("list indices must be integers or slices, not str")
    ELSE Raise("'NoneType' object is not subscriptable")

\* update_tool_set_in_sync that posts the request whatever the token is.
update_tool_set_unchecked(access_token, http) ==
    [sent |-> <<[headers |-> [Authorization |-> "Bearer " \o access_token],
                 json    |-> [jsonrpc |-> "2.0", id |-> "list-tools-request",
                              method  |-> "tools/list"]]>>,
     out  |-> IF http.kind = "network_error" THEN Raise(http.err) ELSE Ok(<<>>)]

\* update_tool_set_in_sync: `sent` is the sequence of requests posted, `out` the
\* list returned or the exception raised.  requests.post is not guarded: a
\* connection failure leaves the function as it is; the status is not looked at.
update_tool_set_in_sync(access_token, http) ==
    IF access_token = None
    THEN [sent |-> <<>>,
          out  |-> Raise("Access token not available. Please fetch access token first.")]
    ELSE LET request ==
                 [headers |-> [Authorization |-> "Bearer " \o access_token],
                  json    |-> [jsonrpc |-> "2.0",
                               id      |-> "list-tools-request",
                               method  |-> "tools/list"]]
             response_data == http.data
             has_result == Contains(response_data, "result")
             result == Subscript(response_data, "result")
             has_tools == Contains(result.val, "tools")
             out ==
                 IF http.kind = "network_error" THEN Raise(http.err)
                 ELSE IF ~has_result.ok THEN has_result
                 ELSE IF ~has_result.val THEN Ok(<<>>)
                 ELSE IF ~result.ok THEN result
                 ELSE IF ~has_tools.ok THEN has_tools
                 ELSE IF ~has_tools.val THEN Ok(<<>>)
                 ELSE Subscript(result.val, "tools")
         IN  [sent |-> <<request>>, out |-> out]

-----------------------------------------------------------------------------
(* ea_multiagent.py: the phases *)

\* The JSON form of an EmailPayload given to every sub-agent.
EmailJson(email) ==
    [from        |-> email.from_email,
     to          |-> email.to,
     cc          |-> email.cc,
     agent_email |-> email.agent_email,
     subject     |-> email.subject,
     body        |-> email.body]

\* The list built from all but the newest of previous_results.
ResultsJsonDropNewest(previous_results) ==
    [i \in 1..(Len(previous_results) - 1) |-> previous_results[i]]

\* The previousExecutionResults list built from previous_results.
ResultsJson(previous_results) ==
    [i \in 1..Len(previous_results) |->
        [status         |-> previous_results[i].status,
         executionOrder |-> previous_results[i].executionOrder,
         stepOutcome    |-> previous_results[i].stepOutcome,
         context        |-> previous_results[i].context,
         toolName       |-> previous_results[i].toolName,
         toolCalled     |-> previous_results[i].toolCalled,
         toolResponse   |-> previous_results[i].toolResponse,
         error          |-> previous_results[i].error]]

\* input_data of the request builder and of the communication agent.
AgentInput(current_step, previous_results, original_email) ==
    [currentStep              |-> [executionOrder |-> current_step.executionOrder,
                                   stepOutcome    |-> current_step.stepOutcome,
                                   context        |-> current_step.context,
                                   toolName       |-> current_step.toolName],
     previousExecutionResults |-> ResultsJson(previous_results),
     originalEmail            |-> EmailJson(original_email)]

\* A sub-agent call answers `reply`: [raised |-> TRUE, err |-> s] when creating or
\* invoking the agent raises, else [raised |-> FALSE, text |-> t] with t the text
\* clean_agent_json_response leaves.

\* execute_planning_phase: the validated plan, or the exception it re-raises.
execute_planning_phase(email, reply) ==
    IF reply.raised THEN Raise(reply.err)
    ELSE LET plan_data == JsonLoads(reply.text)
         IN  IF ~plan_data.ok
             THEN Raise("Planning agent returned invalid JSON: " \o plan_data.err)
             ELSE validate_execution_plan(plan_data.val)

\* execute_request_builder_phase: `prompt` is the input the agent was called with.
execute_request_builder_phase(current_step, previous_results, original_email, reply) ==
    LET input_data == AgentInput(current_step, previous_results, original_email)
        out ==
            IF reply.raised THEN Raise(reply.err)
            ELSE LET response_data == JsonLoads(reply.text)
                 IN  IF ~response_data.ok
                     THEN Raise("Request builder agent returned invalid JSON: "
                                \o response_data.err)
                     ELSE validate_request_builder_response(response_data.val)
    IN  [prompt |-> [agent |-> "request_builder", input |-> input_data], out |-> out]

execute_communication_phase(current_step, previous_results, original_email, reply) ==
    LET input_data == AgentInput(current_step, previous_results, original_email)
        out ==
            IF reply.raised THEN Raise(reply.err)
            ELSE LET response_data == JsonLoads(reply.text)
                 IN  IF ~response_data.ok
                     THEN Raise("Communication agent returned invalid JSON: "
                                \o response_data.err)
                     ELSE validate_communication_response(response_data.val)
    IN  [prompt |-> [agent |-> "communication", input |-> input_data], out |-> out]

\* execute_tool_call passes the module globals and re-raises.
\* execute_tool_call posting the request a second time when the first call raised.
execute_tool_call_retry(tool_name, api_payload, agent_email, access_token, http) ==
    LET first == call_tool_set_in_sync(access_token, tool_name, api_payload,
                                       agent_email, http)
    IN  IF first.out.ok THEN first
        ELSE [sent |-> first.sent \o first.sent, out |-> first.out]

execute_tool_call(tool_name, api_payload, agent_email, access_token, http) ==
    call_tool_set_in_sync(access_token, tool_name, api_payload, agent_email, http)

\* send_ses_email never raises.  `ses` is what the SES client does:
\* [ok |-> TRUE, MessageId |-> m] or [ok |-> FALSE, err |-> s].
\* `mails` is the sequence of messages handed to ses_client.send_email.
SesRequiredFields == <<"to", "body", "from", "subject">>

send_ses_email(api_payload, ses) ==
    LET m == FirstMissing(SesRequiredFields, api_payload)
    IN  IF m # None
        THEN [mails |-> <<>>,
              out   |-> [status |-> "error",
                         error  |-> "Failed to send email via SES: "
                                    \o "Missing required field in email payload: " \o m]]
        ELSE LET mail == [Source      |-> api_payload.from,
                          ToAddresses |-> api_payload.to,
                          CcAddresses |-> Get(api_payload, "cc", <<>>),
                          Subject     |-> api_payload.subject,
                          Body        |-> api_payload.body]
             IN  IF ses.ok
                 THEN [mails |-> <<mail>>,
                       out   |-> [status    |-> "success",
                                  messageId |-> ses.MessageId,
                                  message   |-> "Email sent successfully"]]
                 ELSE [mails |-> <<mail>>,
                       out   |-> [status |-> "error",
                                  error  |-> "Failed to send email via SES: " \o ses.err]]

-----------------------------------------------------------------------------
(* ea_multiagent.py: execute_step *)

\* A subject is a sequence of one-character strings.
Lower(c) == CASE c = "R" -> "r" [] c = "E" -> "e" [] OTHER -> c
StartsWithReplyMarker(subject) ==
    /\ Len(subject) >= 4
    /\ [i \in 1..4 |-> Lower(subject[i])] = <<"r", "e", ":", " ">>
\* ReplySubject comparing the marker as it is spelled, without lower().
ReplySubjectCaseSensitive(subject) ==
    IF Len(subject) >= 4 /\ [i \in 1..4 |-> subject[i]] = <<"R", "e", ":", " ">>
    THEN subject
    ELSE <<"R", "e", ":", " ">> \o subject

ReplySubject(subject) ==
    IF ~StartsWithReplyMarker(subject) THEN <<"R", "e", ":", " ">> \o subject ELSE subject

\* What one call of execute_step did:
\*   result  the StepExecutionResult returned,
\*   step    the PlanStep object after the call,
\*   prompts the sub-agent invocations, sent the gateway requests, mails the
\*           messages handed to SES, in the order made,
\*   caught  str(e) of the exception the except clause of execute_step caught, or None,
\*   raised  str(e) of an exception that leaves execute_step, or None.
StepOutcome(result, step, prompts, sent, mails, caught) ==
    [result |-> result, step |-> step, prompts |-> prompts, sent |-> sent,
     mails |-> mails, caught |-> caught, raised |-> None]

\* The same call when the except clause is missing: the exception leaves execute_step.
StepCaughtReraise(step, err, prompts, sent, mails) ==
    [result |-> NoneObj, step |-> step, prompts |-> prompts, sent |-> sent,
     mails |-> mails, caught |-> None, raised |-> err]

\* The except clause of execute_step.
StepCaught(step, err, prompts, sent, mails) ==
    StepOutcome(create_step_execution_result(step, "error", NoneObj, err),
                step, prompts, sent, mails, err)

\* The two tests on the status of the validated sub-agent response.
StatusIsErrorNever(response) == FALSE
StatusIsError(response) == response.status = "error"
NeedsClarification(response) == response.status = "needs_clarification"

\* The tool_execution branch calling the tool the request builder names.
ToolExecutionBranchBuilderTool(step, previous_results, original_email, access_token, reply, http) ==
    LET current_step == create_current_step(step)
    IN  IF ~current_step.ok THEN StepCaught(step, current_step.err, <<>>, <<>>, <<>>)
        ELSE
        LET phase == execute_request_builder_phase(current_step.val, previous_results,
                                                   original_email, reply)
            builder_response == phase.out
        IN  IF ~builder_response.ok
            THEN StepCaught(step, builder_response.err, <<phase.prompt>>, <<>>, <<>>)
            ELSE IF StatusIsError(builder_response.val)
            THEN StepOutcome(create_step_execution_result(step, "error", NoneObj,
                                                          builder_response.val.error),
                             step, <<phase.prompt>>, <<>>, <<>>, None)
            ELSE IF NeedsClarification(builder_response.val)
            THEN StepOutcome(create_step_execution_result(step, "error", NoneObj,
                                 "Request builder needs clarification"),
                             step, <<phase.prompt>>, <<>>, <<>>, None)
            ELSE
            LET call == execute_tool_call(builder_response.val.toolName, builder_response.val.apiPayload,
                                          original_email.agent_email, access_token, http)
            IN  IF ~call.out.ok
                THEN StepCaught(step, call.out.err, <<phase.prompt>>, call.sent, <<>>)
                ELSE StepOutcome(create_step_execution_result(step, "success",
                                                              call.out.val, None),
                                 step, <<phase.prompt>>, call.sent, <<>>, None)

ToolExecutionBranch(step, previous_results, original_email, access_token, reply, http) ==
    LET current_step == create_current_step(step)
    IN  IF ~current_step.ok THEN StepCaught(step, current_step.err, <<>>, <<>>, <<>>)
        ELSE
        LET phase == execute_request_builder_phase(current_step.val, previous_results,
                                                   original_email, reply)
            builder_response == phase.out
        IN  IF ~builder_response.ok
            THEN StepCaught(step, builder_response.err, <<phase.prompt>>, <<>>, <<>>)
            ELSE IF StatusIsError(builder_response.val)
            THEN StepOutcome(create_step_execution_result(step, "error", NoneObj,
                                                          builder_response.val.error),
                             step, <<phase.prompt>>, <<>>, <<>>, None)
            ELSE IF NeedsClarification(builder_response.val)
            THEN StepOutcome(create_step_execution_result(step, "error", NoneObj,
                                 "Request builder needs clarification"),
                             step, <<phase.prompt>>, <<>>, <<>>, None)
            ELSE
            LET call == execute_tool_call(step.toolName, builder_response.val.apiPayload,
                                          original_email.agent_email, access_token, http)
            IN  IF ~call.out.ok
                THEN StepCaught(step, call.out.err, <<phase.prompt>>, call.sent, <<>>)
                ELSE StepOutcome(create_step_execution_result(step, "success",
                                                              call.out.val, None),
                                 step, <<phase.prompt>>, call.sent, <<>>, None)

CommunicateBranch(step, previous_results, original_email, reply, ses) ==
    LET step1 == [step EXCEPT !.toolName = "communicate"]
        current_step == create_current_step(step1)
    IN  IF ~current_step.ok THEN StepCaught(step1, current_step.err, <<>>, <<>>, <<>>)
        ELSE
        LET phase == execute_communication_phase(current_step.val, previous_results,
                                                 original_email, reply)
            comm_response == phase.out
        IN  IF ~comm_response.ok
            THEN StepCaught(step1, comm_response.err, <<phase.prompt>>, <<>>, <<>>)
            ELSE IF StatusIsError(comm_response.val)
            THEN StepOutcome(create_step_execution_result(step1, "error", NoneObj,
                                                          comm_response.val.error),
                             step1, <<phase.prompt>>, <<>>, <<>>, None)
            ELSE IF NeedsClarification(comm_response.val)
            THEN StepOutcome(create_step_execution_result(step1, "error", NoneObj,
                                 "Communication agent needs clarification"),
                             step1, <<phase.prompt>>, <<>>, <<>>, None)
            ELSE IF comm_response.val.apiPayload = NoneObj
            THEN StepCaught(step1, "'NoneType' object has no attribute 'get'",
                            <<phase.prompt>>, <<>>, <<>>)
            ELSE
            LET ses_payload ==
                    [from    |-> original_email.agent_email,
                     to      |-> <<original_email.from_email>>,
                     cc      |-> Get(comm_response.val.apiPayload, "cc", <<>>),
                     subject |-> ReplySubject(original_email.subject),
                     body    |-> Get(comm_response.val.apiPayload, "body", "")]
                send == send_ses_email(ses_payload, ses)
                tool_response == send.out
            IN  IF Get(tool_response, "status", None) = "error"
                THEN StepOutcome(create_step_execution_result(step1, "error", NoneObj,
                                     Get(tool_response, "error", "Failed to send email")),
                                 step1, <<phase.prompt>>, <<>>, send.mails, None)
                ELSE StepOutcome(create_step_execution_result(step1, "success",
                                                              tool_response, None),
                                 step1, <<phase.prompt>>, <<>>, send.mails, None)

\* execute_step asking the request builder what to do with a replan step.
execute_step_replan_asks(step, previous_results, original_email, access_token, reply, http, ses) ==
    IF step.intent \in {"tool_execution", "replan"}
    THEN ToolExecutionBranch(step, previous_results, original_email, access_token,
                             reply, http)
    ELSE IF step.intent = "communicate"
    THEN CommunicateBranch(step, previous_results, original_email, reply, ses)
    ELSE StepCaught(step, "Unknown step intent: " \o step.intent, <<>>, <<>>, <<>>)

\* execute_step passing over a step of an unknown intent as it does over replan.
execute_step_unknown_passes(step, previous_results, original_email, access_token, reply, http, ses) ==
    IF step.intent = "tool_execution"
    THEN ToolExecutionBranch(step, previous_results, original_email, access_token,
                             reply, http)
    ELSE IF step.intent = "communicate"
    THEN CommunicateBranch(step, previous_results, original_email, reply, ses)
    ELSE StepOutcome(create_step_execution_result(step, "success",
                         [message |-> "Replanning step processed"], None),
                     step, <<>>, <<>>, <<>>, None)

execute_step(step, previous_results, original_email, access_token, reply, http, ses) ==
    IF step.intent = "tool_execution"
    THEN ToolExecutionBranch(step, previous_results, original_email, access_token,
                             reply, http)
    ELSE IF step.intent = "communicate"
    THEN CommunicateBranch(step, previous_results, original_email, reply, ses)
    ELSE IF step.intent = "replan"
    THEN StepOutcome(create_step_execution_result(step, "success",
                         [message |-> "Replanning step processed"], None),
                     step, <<>>, <<>>, <<>>, None)
    ELSE StepCaught(step, "Unknown step intent: " \o step.intent, <<>>, <<>>, <<>>)

-----------------------------------------------------------------------------
(* The inputs of a run: the trigger payload and what the collaborators answer *)

AgentEmail == "agent@superagent.diy"

ValidPayloadDict ==
    [from        |-> "a@x.com",
     to          |-> [list |-> TRUE, v |-> <<AgentEmail>>],
     cc          |-> [list |-> TRUE, v |-> <<>>],
     agent_email |-> AgentEmail,
     subject     |-> <<"L", "u", "n", "c", "h">>,
     body        |-> "..."]

\* type is the Python type of the payload: "bytes" stands for a value json.dumps rejects.
Payloads ==
    { [type |-> "dict", d |-> ValidPayloadDict],
      [type |-> "dict", d |-> [k \in DOMAIN ValidPayloadDict \ {"agent_email"} |->
                                  ValidPayloadDict[k]]],
      [type |-> "str", d |-> NoneObj],
      [type |-> "bytes", d |-> NoneObj] }

Tokens == {None, "tok"}

Raised(err) == [raised |-> TRUE, err |-> err]
Text(t) == [raised |-> FALSE, text |-> t]

StepData ==
    { [executionOrder |-> 2, intent |-> "tool_execution", stepOutcome |-> "find a slot",
       context |-> "c", toolName |-> "calendar"],
      [executionOrder |-> 1, intent |-> "tool_execution", stepOutcome |-> "no tool",
       context |-> "c", toolName |-> ""],
      [executionOrder |-> 1, intent |-> "communicate", stepOutcome |-> "reply",
       context |-> "c"],
      [executionOrder |-> 3, intent |-> "replan", stepOutcome |-> "replan",
       context |-> "c"],
      [executionOrder |-> 2, intent |-> "summarize", stepOutcome |-> "sum up",
       context |-> "c"],
      [executionOrder |-> 1, intent |-> "tool_execution", stepOutcome |-> "find a slot",
       context |-> "c"],
      [executionOrder |-> 1, intent |-> "communicate", stepOutcome |-> "reply"] }

StepLists == UNION {[1..n -> StepData] : n \in 0..MaxSteps}

PlannerReplies ==
    { Raised("model invocation failed"),
      Text(BadText("I cannot plan this")),
      Text(JsonText("{..}", [goal |-> "g", deliverable |-> "d"])) }
    \cup { Text(JsonText("{..}", [goal |-> "g", deliverable |-> "d", steps |-> sd])) :
             sd \in StepLists }

BuilderReplies ==
    { Raised("model invocation failed"),
      Text(BadText("Sorry, I cannot")),
      Text(JsonText("{..}", [toolName |-> "calendar", status |-> "error"])),
      Text(JsonText("{..}", [toolName |-> "calendar", status |-> "error",
                             error |-> "no attendee given"])),
      Text(JsonText("{..}", [toolName |-> "calendar", status |-> "needs_clarification"])),
      Text(JsonText("{..}", [toolName |-> "calendar", status |-> "success"])),
      Text(JsonText("{..}", [toolName |-> "calendar", status |-> "success",
                             apiPayload |-> [q |-> "lunch"]])),
      Text(JsonText("{..}", [toolName |-> "delete_all", status |-> "success",
                             apiPayload |-> [q |-> "lunch",
                                             auth_email |-> "attacker@evil.com"]])),
      Text(JsonText("{..}", [toolName |-> "calendar", status |-> "pending",
                             apiPayload |-> [q |-> "lunch"]])) }

CommReplies ==
    { Text(JsonText("{..}", [toolName |-> "communicate", status |-> "error",
                             error |-> "nothing to say"])),
      Text(JsonText("{..}", [toolName |-> "communicate",
                             status |-> "needs_clarification"])),
      Text(JsonText("{..}", [toolName |-> "communicate", status |-> "success"])),
      Text(JsonText("{..}", [toolName |-> "communicate", status |-> "success",
                             apiPayload |-> NoneObj])),
      Text(JsonText("{..}", [toolName |-> "communicate", status |-> "success",
                             apiPayload |-> [body |-> "Done."]])),
      Text(JsonText("{..}", [toolName |-> "communicate", status |-> "success",
                             apiPayload |-> [body |-> "Done.", cc |-> <<"c@x.com">>]])) }

TextItem(t) == [type |-> "text", text |-> t]

HttpResponses ==
    { [kind |-> "network_error", err |-> "503 Server Error"],
      [kind |-> "json", data |-> [jsonrpc |-> "2.0", error |-> [message |-> "denied"]]],
      [kind |-> "json",
       data |-> [jsonrpc |-> "2.0",
                 result  |-> [isError |-> TRUE,
                              content |-> <<TextItem(JsonText("{..}",
                                                [error |-> "not found"]))>>]]],
      [kind |-> "json",
       data |-> [jsonrpc |-> "2.0",
                 result  |-> [isError |-> FALSE,
                              content |-> <<TextItem(JsonText("{..}", [a |-> 1]))>>]]] }

\* Longest content list of an MCP result in the calls made on the gateway client.
MaxContent == 2

ContentItems ==
    { TextItem(JsonText("{\"error\":\"not found\"}", [error |-> "not found"])),
      TextItem(JsonText("{\"a\":1}", [a |-> 1])),
      TextItem(BadText("oops")),
      TextItem(BadText("")),
      [type |-> "image", data |-> "iVBORw0KGgo="] }

ContentLists == UNION { [1..n -> ContentItems] : n \in 0..MaxContent }

\* The value of the result field of a tools/call answer.
McpResults ==
    {JsonNull}
    \cup { [content |-> c] : c \in ContentLists }
    \cup { [isError |-> e, content |-> c] : e \in BOOLEAN, c \in ContentLists }
    \cup { [isError |-> e] : e \in BOOLEAN }

\* The value of the result field of a tools/list answer.
ListResults ==
    { JsonNull, JsonList(<<>>), JsonList(<<"tools">>),
      [tools |-> <<>>],
      [tools |-> <<[name |-> "calendar"], [name |-> "mail"]>>],
      [nextCursor |-> "c2"] }

RpcErrors == { [code |-> -32000, message |-> "denied"], [code |-> -32600] }

\* The JSON-RPC envelopes: with or without a result, with or without an error.
Envelopes(results) ==
    { r @@ e @@ [jsonrpc |-> "2.0"] :
        r \in { <<>> } \cup { [result |-> x] : x \in results },
        e \in { <<>> } \cup { [error |-> x] : x \in RpcErrors } }

GatewayAnswers(results) ==
    { [kind |-> "network_error", err |-> "503 Server Error"] }
    \cup { [kind |-> "json", data |-> d] : d \in Envelopes(results) }

\* The direct calls of the two functions of the gateway client.
GatewayCalls ==
    { [fn |-> "call_tool_set_in_sync", access_token |-> t, tool_name |-> "calendar",
       api_payload |-> [q |-> "lunch"], agent_email |-> AgentEmail, http |-> h] :
        t \in Tokens, h \in GatewayAnswers(McpResults) }
    \cup
    { [fn |-> "update_tool_set_in_sync", access_token |-> t, http |-> h] :
        t \in Tokens, h \in GatewayAnswers(ListResults) }

\* Longest run of whitespace before and after a text given to
\* clean_agent_json_response.
MaxWs == 1

WhitespaceRuns == UNION { [1..n -> {" ", "\n"}] : n \in 0..MaxWs }

\* The whitespace between a fence and the interior.
OpeningGaps == { <<>>, <<"\n">>, <<" ">> }
ClosingGaps == { <<>>, <<"\n">> }

\* What follows the three backticks of an opening fence: nothing or a language tag.
FenceTags == { <<>>, <<"j", "s", "o", "n">>, <<"J", "S", "O", "N">>, <<"p", "y">> }

\* The text inside: nothing, a JSON object on one line, the same on three lines.
Interiors ==
    { <<>>,
      <<"{", "\"", "a", "\"", ":", "1", "}">>,
      <<"{", "\n", "\"", "a", "\"", ":", "1", "\n", "}">> }

Fence == <<Backtick, Backtick, Backtick>>

\* A text built of its parts: whitespace, an opening fence with its tag (if
\* opened), whitespace, the interior, whitespace, a closing fence (if closed),
\* whitespace.  `between` is the text between the two fences.
AgentText(lead, opened, tag, gap1, interior, gap2, closed, trail) ==
    [fn      |-> "clean_agent_json_response",
     agent_result |-> StrValue(lead \o (IF opened THEN Fence \o tag ELSE <<>>) \o gap1
                               \o interior \o gap2
                               \o (IF closed THEN Fence ELSE <<>>) \o trail),
     text    |-> lead \o (IF opened THEN Fence \o tag ELSE <<>>) \o gap1 \o interior
                      \o gap2 \o (IF closed THEN Fence ELSE <<>>) \o trail,
     opened  |-> opened,
     closed  |-> closed,
     between |-> gap1 \o interior \o gap2]

AgentTexts ==
    { AgentText(lead, TRUE, tag, gap1, interior, gap2, closed, trail) :
        lead \in WhitespaceRuns, tag \in FenceTags, gap1 \in OpeningGaps,
        interior \in Interiors, gap2 \in ClosingGaps, closed \in BOOLEAN,
        trail \in WhitespaceRuns }
    \cup
    { AgentText(lead, FALSE, <<>>, gap1, interior, gap2, closed, trail) :
        lead \in WhitespaceRuns, gap1 \in OpeningGaps,
        interior \in Interiors, gap2 \in ClosingGaps, closed \in BOOLEAN,
        trail \in WhitespaceRuns }

\* Structured objects given to clean_agent_json_response in place of a text:
\* dicts and a list, each with the text str() makes of it.
AgentObjects ==
    { [fn |-> "clean_agent_json_response",
       agent_result |-> ObjectValue("dict", [a |-> 1],
                                    <<"{", "'", "a", "'", ":", " ", "1", "}">>)],
      [fn |-> "clean_agent_json_response",
       agent_result |-> ObjectValue("dict", <<>>, <<"{", "}">>)],
      [fn |-> "clean_agent_json_response",
       agent_result |-> ObjectValue("list", <<>>, <<"[", "]">>)] }

\* Longest steps list of the plan data given to validate_execution_plan on its own.
MaxPlanData == 2

\* The step data of a plan: those of StepData, and steps with a null toolName,
\* without one or several of the required keys, and a replan step with a toolName.
ValidatorSteps ==
    StepData \cup
    { [executionOrder |-> 1, intent |-> "tool_execution", stepOutcome |-> "find a slot",
       context |-> "c", toolName |-> None],
      [intent |-> "tool_execution", stepOutcome |-> "find a slot", context |-> "c",
       toolName |-> "calendar"],
      [executionOrder |-> 2, stepOutcome |-> "reply", context |-> "c"],
      [executionOrder |-> 2, intent |-> "replan", context |-> "c"],
      [intent |-> "tool_execution", stepOutcome |-> "find a slot"],
      [executionOrder |-> 3, intent |-> "replan", stepOutcome |-> "replan",
       context |-> "c", toolName |-> "planner"] }

ValidatorStepLists == UNION { [1..n -> ValidatorSteps] : n \in 0..MaxPlanData }

\* The plan data: with goal and deliverable, without goal, without deliverable.
PlanData ==
    { [goal |-> "g", deliverable |-> "d", steps |-> sd] : sd \in ValidatorStepLists }
    \cup { [deliverable |-> "d", steps |-> sd] : sd \in ValidatorStepLists }
    \cup { [goal |-> "g", steps |-> sd] : sd \in ValidatorStepLists }

\* The direct calls of the two functions of schema_list.py.
ValidatorCalls ==
    { [fn |-> "validate_execution_plan", plan_data |-> d] : d \in PlanData }
    \cup
    { [fn |-> "create_current_step", step |-> PlanStep(sd)] :
        sd \in {x \in ValidatorSteps : FirstMissing(StepRequiredFields, x) = None} }
    \cup
    \* the steps as execute_step hands them over in its communicate branch
    { [fn |-> "create_current_step",
       step |-> [PlanStep(sd) EXCEPT !.toolName = "communicate"]] :
        sd \in {x \in ValidatorSteps : /\ FirstMissing(StepRequiredFields, x) = None
                                       /\ x.intent = "communicate"} }

SesOutcomes ==
    { [ok |-> TRUE, MessageId |-> "m-1"],
      [ok |-> FALSE, err |-> "Email address is not verified"] }

\* The inputs of execute_step called on one step.

\* Subjects of the original email: without the reply marker, with it in every
\* case of its letters, with a marker that lacks its space, shorter than the
\* marker, and with the marker elsewhere than at the start.
StepSubjects ==
    { <<"L", "u", "n", "c", "h">>,
      <<"R", "e", ":", " ", "L", "u", "n", "c", "h">>,
      <<"R", "E", ":", " ", "L", "u", "n", "c", "h">>,
      <<"r", "e", ":", " ", "L", "u", "n", "c", "h">>,
      <<"r", "E", ":", " ", "L", "u", "n", "c", "h">>,
      <<"R", "e", ":", "L", "u", "n", "c", "h">>,
      <<"R", "e", ":">>,
      <<"F", "w", ":", " ", "R", "e", ":", " ", "L", "u", "n", "c", "h">> }

StepEmails ==
    { validate_email_payload([ValidPayloadDict EXCEPT !.subject = subj]).val :
        subj \in StepSubjects }

\* The steps a validated plan can hold.
StepPlanSteps == { PlanStep(sd) : sd \in {x \in StepData : StepProblem(x, 0) = None} }

\* The results of the steps before: none, or one failed step.
StepHistories ==
    { <<>>,
      <<create_step_execution_result(
            PlanStep([executionOrder |-> 0, intent |-> "tool_execution",
                      stepOutcome |-> "look up", context |-> "c",
                      toolName |-> "calendar"]),
            "error", NoneObj, "Tool call failed: denied")>> }

\* What the request builder can answer: BuilderReplies, status error with a
\* null error, and a response without toolName.
StepBuilderReplies ==
    BuilderReplies
    \cup { Text(JsonText("{..}", [toolName |-> "calendar", status |-> "error",
                                  error |-> None])),
           Text(JsonText("{..}", [status |-> "success",
                                  apiPayload |-> [q |-> "lunch"]])) }

\* What the communication agent can answer: CommReplies, a failed invocation,
\* status error without error and with a null error, and a status outside the
\* three of the schema.
StepCommReplies ==
    CommReplies
    \cup { Raised("model invocation failed"),
           Text(JsonText("{..}", [toolName |-> "communicate", status |-> "error"])),
           Text(JsonText("{..}", [toolName |-> "communicate", status |-> "error",
                                  error |-> None])),
           Text(JsonText("{..}", [toolName |-> "communicate", status |-> "pending",
                                  apiPayload |-> [body |-> "Working on it."]])) }

StepCalls ==
    { [fn |-> "execute_step", step |-> st, previous_results |-> h,
       original_email |-> e, access_token |-> t, reply |-> r, http |-> x,
       ses |-> CHOOSE y \in SesOutcomes : TRUE] :
        st \in {z \in StepPlanSteps : z.intent = "tool_execution"},
        h \in StepHistories, e \in StepEmails, t \in Tokens,
        r \in StepBuilderReplies, x \in HttpResponses }
    \cup
    { [fn |-> "execute_step", step |-> st, previous_results |-> h,
       original_email |-> e, access_token |-> "tok", reply |-> r,
       http |-> CHOOSE x \in HttpResponses : TRUE, ses |-> y] :
        st \in {z \in StepPlanSteps : z.intent = "communicate"},
        h \in StepHistories, e \in StepEmails,
        r \in StepCommReplies, y \in SesOutcomes }
    \cup
    { [fn |-> "execute_step", step |-> st, previous_results |-> h,
       original_email |-> e, access_token |-> "tok",
       reply |-> CHOOSE r \in BuilderReplies : TRUE,
       http |-> CHOOSE x \in HttpResponses : TRUE,
       ses |-> CHOOSE y \in SesOutcomes : TRUE] :
        st \in {z \in StepPlanSteps : z.intent \notin {"tool_execution", "communicate"}},
        h \in StepHistories, e \in StepEmails }

\* What the gateway answers the tools/list request of the start of the process,
\* and the TOOL_SET that start leaves: the list update_tool_set_in_sync
\* returns, or the [] of the module when it raises.
StartupToolsAnswer ==
    [kind |-> "json",
     data |-> [jsonrpc |-> "2.0", result |-> [tools |-> <<[name |-> "calendar"]>>]]]

StartupToolSet(token) ==
    LET listed == update_tool_set_in_sync(token, StartupToolsAnswer).out
    IN  IF listed.ok THEN listed.val ELSE <<>>

-----------------------------------------------------------------------------
(* ea_multiagent.py: invoke and execute_plan as a state machine *)

NoCalls == [planner |-> 0, request_builder |-> 0, communication |-> 0,
            gateway |-> 0, ses |-> 0]

Init ==
    /\ pc = "start"
    /\ ACCESS_TOKEN \in Tokens
    /\ TOOL_SET = StartupToolSet(ACCESS_TOKEN)
    /\ payload \in Payloads
    /\ plan_reply = NoneObj
    /\ email_data = NoneObj
    /\ execution_plan = NoneObj
    /\ validated_steps = <<>>
    /\ execution_results = <<>>
    /\ executed = <<>>
    /\ ncalls = NoCalls
    /\ last = NoneObj
    /\ ret = NoneObj
    /\ fcall = NoneObj
    /\ outcome = NoneObj
    /\ runs = NoneObj
    /\ agents_table = <<>>
    /\ requests = NoneObj

\* The outermost except clause of invoke.
OuterExceptReraise(err) == [raised |-> err]
OuterExcept(err) == [error |-> "Unexpected error: " \o err]

\* invoke up to the planning phase: json.dumps(payload) for the log, the isinstance
\* test and validate_email_payload.  [email |-> e] when the run goes on, else
\* [return |-> r] with r what invoke returns.
InputCheck(p) ==
    IF p.type = "bytes"
    THEN [return |-> OuterExcept("Object of type bytes is not JSON serializable")]
    ELSE IF p.type # "dict"
    THEN [return |-> [error |-> "Invalid payload format. Expected a dictionary."]]
    ELSE LET e == validate_email_payload(p.d)
         IN  IF e.ok THEN [email |-> e.val]
             ELSE [return |-> [error |-> "Email payload validation failed: " \o e.err]]

ValidateInput ==
    /\ pc = "start"
    /\ \E c \in {InputCheck(payload)} :
         IF "email" \in DOMAIN c
         THEN /\ email_data' = c.email
              /\ pc' = "planning"
              /\ ret' = ret
         ELSE /\ ret' = c.return
              /\ pc' = "done"
              /\ email_data' = email_data
    /\ UNCHANGED <<ACCESS_TOKEN, TOOL_SET, payload, plan_reply, execution_plan,
                   validated_steps, execution_results, executed, ncalls, last, fcall,
                   outcome, runs, agents_table, requests>>

\* Step 1 of invoke: the planning phase, one call of the planning agent.
PlanningPhase ==
    /\ pc = "planning"
    /\ \E reply \in PlannerReplies :
         \E plan \in {execute_planning_phase(email_data, reply)} :
             /\ ncalls' = [ncalls EXCEPT !.planner = @ + 1]
             /\ plan_reply' = reply
             /\ IF plan.ok
                THEN /\ execution_plan' = plan.val
                     /\ validated_steps' = plan.val.steps
                     /\ pc' = "executing"
                     /\ ret' = ret
                ELSE /\ ret' = [error |-> "Planning phase failed: " \o plan.err]
                     /\ pc' = "done"
                     /\ UNCHANGED <<execution_plan, validated_steps>>
    /\ UNCHANGED <<ACCESS_TOKEN, TOOL_SET, payload, email_data, execution_results,
                   executed, last, fcall, outcome, runs, agents_table, requests>>

\* The i-th step of sorted(steps, key=executionOrder).
StepAtSorted(steps, i) ==
    LET Before(k, j) == \/ steps[k].executionOrder < steps[j].executionOrder
                        \/ steps[k].executionOrder = steps[j].executionOrder /\ k < j
    IN  steps[CHOOSE j \in 1..Len(steps) :
                 Cardinality({k \in 1..Len(steps) : Before(k, j)}) = i - 1]

\* The step the loop of execute_plan hands to execute_step in iteration i.
StepAt(steps, i) == steps[i]

\* The step the for loop of execute_plan is at (1-based), and whether it has one.
NextIndex == Len(execution_results) + 1

\* A loop that breaks at the first failed step.
HasNextStepUntilFailure ==
    /\ pc = "executing"
    /\ NextIndex <= Len(execution_plan.steps)
    /\ \A i \in 1..Len(execution_results) : execution_results[i].status = "success"

HasNextStep == pc = "executing" /\ NextIndex <= Len(execution_plan.steps)

\* execute_step on the next step of the loop of execute_plan, with the list of
\* results so far; the collaborators answer reply, http, ses.
StepCall(reply, http, ses) ==
    execute_step(StepAt(execution_plan.steps, NextIndex), execution_results, email_data,
                 ACCESS_TOKEN, reply, http, ses)

\* One iteration of the loop of execute_plan: o is what execute_step did; its
\* result is appended.  An exception leaving execute_step would leave
\* execute_plan too and end invoke in its `Plan execution failed` clause.
Iteration(o, reply, http, ses) ==
    LET i == NextIndex
    IN  /\ IF o.raised = None
           THEN /\ execution_results' = Append(execution_results, o.result)
                /\ UNCHANGED <<pc, ret>>
           ELSE /\ ret' = [error |-> "Plan execution failed: " \o o.raised]
                /\ pc' = "done"
                /\ UNCHANGED execution_results
        /\ execution_plan' = [execution_plan EXCEPT !.steps[i] = o.step]
        /\ executed' = Append(executed, StepAt(execution_plan.steps, i))
        /\ ncalls' = [ncalls EXCEPT
                        !.request_builder = @ + Cardinality({k \in 1..Len(o.prompts) :
                                                o.prompts[k].agent = "request_builder"}),
                        !.communication = @ + Cardinality({k \in 1..Len(o.prompts) :
                                                o.prompts[k].agent = "communication"}),
                        !.gateway = @ + Len(o.sent),
                        !.ses = @ + Len(o.mails)]
        /\ last' = [index   |-> i,
                    history |-> execution_results,
                    reply   |-> IF o.prompts = <<>> THEN NoneObj ELSE reply,
                    http    |-> IF o.sent = <<>> THEN NoneObj ELSE http,
                    ses     |-> IF o.mails = <<>> THEN NoneObj ELSE ses,
                    prompts |-> o.prompts,
                    sent    |-> o.sent,
                    mails   |-> o.mails,
                    caught  |-> o.caught]
        /\ UNCHANGED <<ACCESS_TOKEN, TOOL_SET, payload, plan_reply, email_data,
                       validated_steps, fcall, outcome, runs, agents_table, requests>>

\* Answers that are never asked for are fixed, so that each behaviour of the
\* collaborators is explored once.
AnyHttp == CHOOSE h \in HttpResponses : TRUE
AnySes == CHOOSE x \in SesOutcomes : TRUE
AnyReply == CHOOSE r \in BuilderReplies : TRUE

ToolExecutionStep ==
    /\ HasNextStep
    /\ StepAt(execution_plan.steps, NextIndex).intent = "tool_execution"
    /\ \E reply \in BuilderReplies :
         \E probe \in {StepCall(reply, AnyHttp, AnySes)} :
           /\ probe.prompts = <<>> => reply = AnyReply
           /\ IF probe.sent = <<>>
              THEN Iteration(probe, reply, AnyHttp, AnySes)
              ELSE \E http \in HttpResponses :
                     \E o \in {StepCall(reply, http, AnySes)} :
                       Iteration(o, reply, http, AnySes)

CommunicateStep ==
    /\ HasNextStep
    /\ StepAt(execution_plan.steps, NextIndex).intent = "communicate"
    /\ \E reply \in CommReplies :
         \E probe \in {StepCall(reply, AnyHttp, AnySes)} :
           IF probe.mails = <<>>
           THEN Iteration(probe, reply, AnyHttp, AnySes)
           ELSE \E ses \in SesOutcomes :
                  \E o \in {StepCall(reply, AnyHttp, ses)} :
                    Iteration(o, reply, AnyHttp, ses)

ReplanStep ==
    /\ HasNextStep
    /\ StepAt(execution_plan.steps, NextIndex).intent = "replan"
    /\ \E o \in {StepCall(AnyReply, AnyHttp, AnySes)} :
         Iteration(o, AnyReply, AnyHttp, AnySes)

UnknownIntentStep ==
    /\ HasNextStep
    /\ StepAt(execution_plan.steps, NextIndex).intent
          \notin {"tool_execution", "communicate", "replan"}
    /\ \E o \in {StepCall(AnyReply, AnyHttp, AnySes)} :
         Iteration(o, AnyReply, AnyHttp, AnySes)

\* The summary with successful_steps counted from toolCalled.
SummaryByToolCalled(plan, results) ==
    LET successful_steps == Cardinality({i \in 1..Len(results) : results[i].toolCalled})
    IN  [status            |-> "completed",
         goal              |-> plan.goal,
         deliverable       |-> plan.deliverable,
         total_steps       |-> Len(results),
         successful_steps  |-> successful_steps,
         failed_steps      |-> Len(results) - successful_steps,
         execution_results |-> results]

\* execute_plan returns and invoke builds the summary.
Summary(plan, results) ==
    LET successful_steps == Cardinality({i \in 1..Len(results) :
                                            results[i].status = "success"})
        failed_steps == Len(results) - successful_steps
    IN  [status            |-> "completed",
         goal              |-> plan.goal,
         deliverable       |-> plan.deliverable,
         total_steps       |-> Len(results),
         successful_steps  |-> successful_steps,
         failed_steps      |-> failed_steps,
         execution_results |-> [i \in 1..Len(results) |->
                                   [executionOrder |-> results[i].executionOrder,
                                    status         |-> results[i].status,
                                    stepOutcome    |-> results[i].stepOutcome,
                                    toolName       |-> results[i].toolName,
                                    error          |-> results[i].error,
                                    toolResponse   |-> results[i].toolResponse]]]

ReturnSummary ==
    /\ pc = "executing"
    /\ ~HasNextStep
    /\ ret' = Summary(execution_plan, execution_results)
    /\ pc' = "done"
    /\ UNCHANGED <<ACCESS_TOKEN, TOOL_SET, payload, plan_reply, email_data,
                   execution_plan, validated_steps, execution_results, executed, ncalls,
                   last, fcall, outcome, runs, agents_table, requests>>

Next ==
    \/ ValidateInput
    \/ PlanningPhase
    \/ ToolExecutionStep
    \/ CommunicateStep
    \/ ReplanStep
    \/ UnknownIntentStep
    \/ ReturnSummary

Spec == Init /\ [][Next]_vars

-----------------------------------------------------------------------------
(* utils.py: the functions of the gateway client called on their own *)

\* No run of invoke is going on.
Idle ==
    /\ pc = "idle"
    /\ ACCESS_TOKEN = None
    /\ TOOL_SET = <<>>
    /\ runs = NoneObj
    /\ agents_table = <<>>
    /\ requests = NoneObj
    /\ payload = NoneObj
    /\ plan_reply = NoneObj
    /\ email_data = NoneObj
    /\ execution_plan = NoneObj
    /\ validated_steps = <<>>
    /\ execution_results = <<>>
    /\ executed = <<>>
    /\ ncalls = NoCalls
    /\ last = NoneObj
    /\ ret = NoneObj

runVars == <<pc, ACCESS_TOKEN, TOOL_SET, payload, plan_reply, email_data, execution_plan,
             validated_steps, execution_results, executed, ncalls, last, ret, runs,
             agents_table, requests>>

GatewayInit ==
    /\ Idle
    /\ fcall \in GatewayCalls
    /\ outcome = NoneObj

CallToolSet ==
    /\ fcall.fn = "call_tool_set_in_sync"
    /\ outcome = NoneObj
    /\ outcome' = call_tool_set_in_sync(fcall.access_token, fcall.tool_name,
                                        fcall.api_payload, fcall.agent_email, fcall.http)
    /\ UNCHANGED <<runVars, fcall>>

UpdateToolSet ==
    /\ fcall.fn = "update_tool_set_in_sync"
    /\ outcome = NoneObj
    /\ outcome' = update_tool_set_in_sync(fcall.access_token, fcall.http)
    /\ UNCHANGED <<runVars, fcall>>

GatewayNext ==
    \/ CallToolSet
    \/ UpdateToolSet

SpecGateway == GatewayInit /\ [][GatewayNext]_vars

-----------------------------------------------------------------------------
(* utils.py: clean_agent_json_response called on its own *)

SanitizerInit ==
    /\ Idle
    /\ fcall \in AgentTexts \cup AgentObjects
    /\ outcome = NoneObj

CleanAgentResponse ==
    /\ fcall.fn = "clean_agent_json_response"
    /\ outcome = NoneObj
    /\ outcome' = [out |-> Ok(clean_agent_json_response(fcall.agent_result))]
    /\ UNCHANGED <<runVars, fcall>>

SanitizerNext == CleanAgentResponse

SpecSanitizer == SanitizerInit /\ [][SanitizerNext]_vars

-----------------------------------------------------------------------------
(* schema_list.py: validate_execution_plan and create_current_step called on
   their own *)

ValidatorInit ==
    /\ Idle
    /\ fcall \in ValidatorCalls
    /\ outcome = NoneObj

ValidatePlan ==
    /\ fcall.fn = "validate_execution_plan"
    /\ outcome = NoneObj
    /\ outcome' = [out |-> validate_execution_plan(fcall.plan_data)]
    /\ UNCHANGED <<runVars, fcall>>

CreateCurrentStep ==
    /\ fcall.fn = "create_current_step"
    /\ outcome = NoneObj
    /\ outcome' = [out |-> create_current_step(fcall.step)]
    /\ UNCHANGED <<runVars, fcall>>

ValidatorNext ==
    \/ ValidatePlan
    \/ CreateCurrentStep

SpecValidator == ValidatorInit /\ [][ValidatorNext]_vars

-----------------------------------------------------------------------------
(* ea_multiagent.py: execute_step called on one step *)

StepInit ==
    /\ Idle
    /\ fcall \in StepCalls
    /\ outcome = NoneObj

ExecuteStep ==
    /\ fcall.fn = "execute_step"
    /\ outcome = NoneObj
    /\ outcome' = execute_step(fcall.step, fcall.previous_results, fcall.original_email,
                               fcall.access_token, fcall.reply, fcall.http, fcall.ses)
    /\ UNCHANGED <<runVars, fcall>>

StepNext == ExecuteStep

SpecStep == StepInit /\ [][StepNext]_vars

-----------------------------------------------------------------------------
(* ea_multiagent.py: two runs of invoke side by side in one process *)

Runs == {1, 2}

\* The steps of the plans of the runs.
ToolStepData ==
    [executionOrder |-> 1, intent |-> "tool_execution", stepOutcome |-> "find a slot",
     context |-> "c", toolName |-> "calendar"]
CommunicateStepData ==
    [executionOrder |-> 2, intent |-> "communicate", stepOutcome |-> "reply",
     context |-> "c"]
ReplanStepData ==
    [executionOrder |-> 3, intent |-> "replan", stepOutcome |-> "replan", context |-> "c"]

RunStepLists ==
    { <<ToolStepData>>, <<CommunicateStepData>>, <<ToolStepData, CommunicateStepData>>,
      <<CommunicateStepData, ToolStepData>>, <<ReplanStepData, ToolStepData>> }

\* What the collaborators answer during one step of a run: the sub-agent's
\* reply, the gateway's response and what SES does.
RunAnswers(step_data) ==
    LET built == Text(JsonText("{..}", [toolName |-> "calendar", status |-> "success",
                                        apiPayload |-> [q |-> "lunch"]]))
        refused == Text(JsonText("{..}", [toolName |-> "calendar", status |-> "error",
                                          error |-> "no attendee given"]))
        written == Text(JsonText("{..}", [toolName |-> "communicate",
                                          status |-> "success",
                                          apiPayload |-> [body |-> "Done."]]))
        answered == [kind |-> "json",
                     data |-> [jsonrpc |-> "2.0",
                               result  |-> [isError |-> FALSE,
                                            content |-> <<TextItem(JsonText("{..}",
                                                              [a |-> 1]))>>]]]
        unreachable == [kind |-> "network_error", err |-> "503 Server Error"]
        delivered == [ok |-> TRUE, MessageId |-> "m-1"]
        undelivered == [ok |-> FALSE, err |-> "Email address is not verified"]
    IN  IF step_data.intent = "tool_execution"
        THEN { [reply |-> built, http |-> answered, ses |-> delivered],
               [reply |-> built, http |-> unreachable, ses |-> delivered],
               [reply |-> refused, http |-> answered, ses |-> delivered] }
        ELSE IF step_data.intent = "communicate"
        THEN { [reply |-> written, http |-> answered, ses |-> delivered],
               [reply |-> written, http |-> answered, ses |-> undelivered] }
        ELSE { [reply |-> built, http |-> answered, ses |-> delivered] }

\* The inputs of one run: what the planning agent answers and, for each step
\* of the plan, what the collaborators answer.
RunScripts ==
    { [plan_reply |-> Text(BadText("I cannot plan this")), answers |-> <<>>] }
    \cup
    UNION { { [plan_reply |-> Text(JsonText("{..}", [goal |-> "g", deliverable |-> "d",
                                                     steps |-> sd])),
               answers    |-> a] :
                a \in { f \in [1..Len(sd) -> UNION {RunAnswers(sd[i]) : i \in 1..Len(sd)}] :
                          \A i \in 1..Len(sd) : f[i] \in RunAnswers(sd[i]) } } :
            sd \in RunStepLists }

\* The email of run r: each run has a sender of its own.
RunEmail(r) ==
    validate_email_payload(
        [ValidPayloadDict EXCEPT !.from = IF r = 1 THEN "a@x.com" ELSE "b@x.com"]).val

\* The process has started (the main block assigned the two globals, recorded in
\* fcall) and two requests have arrived; each run is past validate_email_payload.
ConcurrentInit ==
    /\ pc = "idle"
    /\ ACCESS_TOKEN \in Tokens
    /\ TOOL_SET = StartupToolSet(ACCESS_TOKEN)
    /\ fcall = [fn |-> "__main__", ACCESS_TOKEN |-> ACCESS_TOKEN, TOOL_SET |-> TOOL_SET]
    /\ \E script \in [Runs -> RunScripts] :
          runs = [r \in Runs |->
                    [pc                |-> "planning",
                     email_data        |-> RunEmail(r),
                     plan_reply        |-> script[r].plan_reply,
                     answers           |-> script[r].answers,
                     execution_plan    |-> NoneObj,
                     execution_results |-> <<>>,
                     ret               |-> NoneObj]]
    /\ payload = NoneObj
    /\ plan_reply = NoneObj
    /\ email_data = NoneObj
    /\ execution_plan = NoneObj
    /\ validated_steps = <<>>
    /\ execution_results = <<>>
    /\ executed = <<>>
    /\ ncalls = NoCalls
    /\ last = NoneObj
    /\ ret = NoneObj
    /\ outcome = NoneObj
    /\ agents_table = <<>>
    /\ requests = NoneObj

\* A part of invoke that drops the token when it fails.
GlobalsAfterDropToken(globals, failed) ==
    IF failed THEN [globals EXCEPT !.ACCESS_TOKEN = None] ELSE globals

\* What a part of invoke leaves in the two module globals: no function
\* reachable from invoke declares them global or assigns them.
GlobalsAfter(globals, failed) == globals

\* The variables a run does not touch.
ConcurrentFrame ==
    UNCHANGED <<pc, payload, plan_reply, email_data, execution_plan, validated_steps,
                execution_results, ncalls, last, ret, fcall, outcome, agents_table,
                requests>>

WriteGlobals(failed) ==
    \E g \in {GlobalsAfter([ACCESS_TOKEN |-> ACCESS_TOKEN, TOOL_SET |-> TOOL_SET], failed)} :
        /\ ACCESS_TOKEN' = g.ACCESS_TOKEN
        /\ TOOL_SET' = g.TOOL_SET

\* Run r does its planning phase.
RunPlanning(r) ==
    /\ runs[r].pc = "planning"
    /\ \E plan \in {execute_planning_phase(runs[r].email_data, runs[r].plan_reply)} :
         /\ runs' = [runs EXCEPT
                       ![r].pc = IF plan.ok THEN "executing" ELSE "done",
                       ![r].execution_plan = IF plan.ok THEN plan.val ELSE NoneObj,
                       ![r].ret = IF plan.ok THEN NoneObj
                                  ELSE [error |-> "Planning phase failed: " \o plan.err]]
         /\ WriteGlobals(~plan.ok)
    /\ executed' = Append(executed, [run |-> r, part |-> "planning"])
    /\ ConcurrentFrame

\* Run r does one iteration of the loop of execute_plan.
RunStep(r) ==
    LET run == runs[r]
        i == Len(run.execution_results) + 1
    IN  /\ run.pc = "executing"
        /\ i <= Len(run.execution_plan.steps)
        /\ \E o \in {execute_step(StepAt(run.execution_plan.steps, i),
                                  run.execution_results, run.email_data, ACCESS_TOKEN,
                                  run.answers[i].reply, run.answers[i].http,
                                  run.answers[i].ses)} :
             /\ runs' = [runs EXCEPT
                           ![r].execution_results = Append(@, o.result),
                           ![r].execution_plan.steps[i] = o.step]
             /\ WriteGlobals(o.result.status = "error")
        /\ executed' = Append(executed, [run |-> r, part |-> "step"])
        /\ ConcurrentFrame

\* Run r leaves execute_plan and returns the summary.
RunReturn(r) ==
    LET run == runs[r]
    IN  /\ run.pc = "executing"
        /\ Len(run.execution_results) >= Len(run.execution_plan.steps)
        /\ runs' = [runs EXCEPT
                      ![r].pc = "done",
                      ![r].ret = Summary(run.execution_plan, run.execution_results)]
        /\ WriteGlobals(FALSE)
        /\ executed' = Append(executed, [run |-> r, part |-> "return"])
        /\ ConcurrentFrame

ConcurrentNext ==
    \E r \in Runs :
        \/ RunPlanning(r)
        \/ RunStep(r)
        \/ RunReturn(r)

SpecConcurrent == ConcurrentInit /\ [][ConcurrentNext]_vars

-----------------------------------------------------------------------------
(* google_calendar/auth.py: get_access_token *)

\* raise AuthenticationError(message, status_code)
AuthenticationError(message, status_code) ==
    [ok |-> FALSE, err |-> message, status_code |-> status_code]

\* lookup_email_from_agents_table: (email, error).  get_item is what
\* agents_table.get_item does: [raised |-> TRUE, err |-> s] or
\* [raised |-> FALSE, response |-> r].
lookup_email_from_agents_table(auth_email, get_item) ==
    IF get_item.raised
    THEN [email |-> None,
          error |-> "Error looking up email from agents table: " \o get_item.err]
    ELSE IF "Item" \notin DOMAIN get_item.response
    THEN [email |-> None,
          error |-> "Agent email " \o auth_email
                    \o " not found in agents allocation table"]
    ELSE LET email == Get(get_item.response.Item, "email", None)
         IN  IF Falsy(email)
             THEN [email |-> None,
                   error |-> "No email field found for agent_email: " \o auth_email]
             ELSE [email |-> email, error |-> None]

\* The buffer of the expiry test and the default lifetime of a refreshed token,
\* in seconds.
BufferSeconds == 30
DefaultExpiresIn == 3600

\* A token_expires_at is [kind |-> "naive", at |-> t] for an ISO text without
\* offset, read as the second t; [kind |-> "aware", at |-> t] for a text ending
\* in Z or an offset, which fromisoformat reads as an aware datetime;
\* [kind |-> "bad"] for a text fromisoformat rejects.  A naive time is written
\* back by isoformat().
NaiveTime(t) == [kind |-> "naive", at |-> t]

\* The try block of the expiry check (lines 215-257) for a token_expires_at that
\* is set: the exception it raises, or the token and user_data it leaves.
\* `refreshes` counts the calls of refresh_access_token, `updates` lists the
\* items written by update_token_in_dynamodb.
ExpiryCheck(email, access_token, refresh_token, user_data, now, refresh, update) ==
    LET token_expires_at == user_data.token_expires_at
    IN  IF token_expires_at.kind = "bad"
        THEN [out |-> Raise("Invalid isoformat string"), refreshes |-> 0, updates |-> <<>>]
        ELSE IF token_expires_at.kind = "aware"
        THEN [out |-> Raise("can't compare offset-naive and offset-aware datetimes"),
              refreshes |-> 0, updates |-> <<>>]
        ELSE IF now + BufferSeconds >= token_expires_at.at
        THEN IF refresh.error # None
             THEN [out |-> AuthenticationError(
                               "Failed to refresh access token. Please re-authorize.", 401),
                   refreshes |-> 1, updates |-> <<>>]
             ELSE LET new_token == Get(refresh.token_data, "access_token", None)
                      expires_in == Get(refresh.token_data, "expires_in", DefaultExpiresIn)
                      written == [email              |-> email,
                                  google_access_token |-> new_token,
                                  token_expires_at    |-> NaiveTime(now + expires_in),
                                  refresh_token       |-> refresh_token]
                  IN  [out |-> Ok([access_token |-> new_token,
                                   user_data    |->
                                       [user_data EXCEPT
                                           !.google_access_token = new_token,
                                           !.token_expires_at = NaiveTime(now + expires_in)]]),
                       refreshes |-> 1,
                       updates   |-> IF update.success THEN <<written>> ELSE <<>>]
        ELSE [out |-> Ok([access_token |-> access_token, user_data |-> user_data]),
              refreshes |-> 0, updates |-> <<>>]

\* The `except Exception` of the expiry check (lines 259-261): it logs a
\* warning and the function goes on with the token it read from the table.
\* AuthenticationError is an Exception.
ExpiryCheckCaught(checked, access_token, user_data) ==
    [out |-> Ok([access_token |-> access_token, user_data |-> user_data]),
     refreshes |-> checked.refreshes, updates |-> checked.updates]

\* get_access_token: out is Ok([access_token, user_data]) for the tuple
\* (access_token, user_data, None) or the AuthenticationError raised.  query is
\* what dynamodb_table.query does, now the second utcnow() gives, refresh the
\* tuple refresh_access_token returns, update whether the update of the item
\* works.
get_access_token(auth_email, get_item, query, now, refresh, update) ==
    LET lookup == lookup_email_from_agents_table(auth_email, get_item)
        none == [refreshes |-> 0, updates |-> <<>>]
    IN  IF lookup.error # None
        THEN none @@ [out |-> AuthenticationError("Agent email not found: "
                                                  \o lookup.error, 404)]
        ELSE IF query.raised
        THEN none @@ [out |-> AuthenticationError("Authentication error: " \o query.err,
                                                  500)]
        ELSE IF Get(query.response, "Items", <<>>) = <<>>
        THEN none @@ [out |-> AuthenticationError("User not found", 404)]
        ELSE
        LET user_data == query.response.Items[1]
            access_token == Get(user_data, "google_access_token", None)
            refresh_token == Get(user_data, "refresh_token", None)
        IN  IF Falsy(access_token) \/ Falsy(refresh_token)
            THEN none @@ [out |-> AuthenticationError(
                "User is not authorized for calendar access. Please grant calendar permissions.",
                403)]
            ELSE IF "token_expires_at" \notin DOMAIN user_data
            THEN none @@ [out |-> Ok([access_token |-> access_token,
                                      user_data |-> user_data])]
            ELSE LET checked == ExpiryCheck(lookup.email, access_token, refresh_token,
                                            user_data, now, refresh, update)
                 IN  IF checked.out.ok THEN checked
                     ELSE ExpiryCheckCaught(checked, access_token, user_data)

\* The calls of get_access_token.

UserEmail == "u@x.com"

\* The second utcnow() gives.
AuthNow == 1000

GetItemAnswers ==
    { [raised |-> TRUE, err |-> "ResourceNotFoundException"],
      [raised |-> FALSE, response |-> <<>>],
      [raised |-> FALSE, response |-> [Item |-> [agent_email |-> AgentEmail]]],
      [raised |-> FALSE,
       response |-> [Item |-> [agent_email |-> AgentEmail, email |-> UserEmail]]] }

\* Expiry times: long past, at the current second, inside the buffer, at its
\* edge, one second beyond it, and far ahead.
ExpiryTimes ==
    { [kind |-> "bad"] }
    \cup { [kind |-> k, at |-> AuthNow + d] :
             k \in {"naive", "aware"},
             d \in {0 - 500, 0, BufferSeconds - 1, BufferSeconds, BufferSeconds + 1,
                    DefaultExpiresIn} }

Subscribers ==
    { [email |-> UserEmail],
      [email |-> UserEmail, google_access_token |-> "stored-token"],
      [email |-> UserEmail, google_access_token |-> "stored-token",
       refresh_token |-> "refresh-token"] }
    \cup { [email |-> UserEmail, google_access_token |-> "stored-token",
            refresh_token |-> "refresh-token", token_expires_at |-> t] :
             t \in ExpiryTimes }

QueryAnswers ==
    { [raised |-> TRUE, err |-> "ProvisionedThroughputExceededException"],
      [raised |-> FALSE, response |-> [Items |-> <<>>]] }
    \cup { [raised |-> FALSE, response |-> [Items |-> <<u>>]] : u \in Subscribers }

RefreshAnswers ==
    { [token_data |-> NoneObj,
       error      |-> "Error refreshing access token: HTTP Error 400: Bad Request"],
      [token_data |-> [access_token |-> "new-token", expires_in |-> 1800], error |-> None],
      [token_data |-> [access_token |-> "new-token"], error |-> None] }

AuthCalls ==
    { [fn |-> "get_access_token", auth_email |-> AgentEmail, get_item |-> g,
       query |-> q, now |-> AuthNow, refresh |-> r, update |-> [success |-> u]] :
        g \in GetItemAnswers, q \in QueryAnswers, r \in RefreshAnswers, u \in BOOLEAN }

AuthInit ==
    /\ Idle
    /\ fcall \in AuthCalls
    /\ outcome = NoneObj

GetAccessToken ==
    /\ fcall.fn = "get_access_token"
    /\ outcome = NoneObj
    /\ outcome' = get_access_token(fcall.auth_email, fcall.get_item, fcall.query,
                                   fcall.now, fcall.refresh, fcall.update)
    /\ UNCHANGED <<runVars, fcall>>

AuthNext == GetAccessToken

SpecAuth == AuthInit /\ [][AuthNext]_vars

-----------------------------------------------------------------------------
(* api/validate_invite.py: validate_invite requests side by side *)

\* create_response without the headers; the body is kept as data.
create_response(status_code, body_data) == [statusCode |-> status_code, body |-> body_data]

INVITE_CODE == "9339c102-5cd1-4686-958e-fe8ab27ba1e0"

\* max_attempts of generate_agent_email.
MaxAttempts == 5

\* The addresses random.choice and random.randint can put together.
CandidateEmails == {"bold-wolf-10@superagent.diy", "calm-star-42@superagent.diy"}

\* The subscribers table: one item per user.
SubscriberItems ==
    { [email |-> "u1@x.com", sid |-> "sid-1", user_name |-> "Una"],
      [email |-> "u2@x.com", sid |-> "sid-2", user_name |-> "Tom"] }

\* get_user_from_dynamodb: (user_item, error)
get_user_from_dynamodb(email) ==
    IF \E u \in SubscriberItems : u.email = email
    THEN [user |-> CHOOSE u \in SubscriberItems : u.email = email, error |-> None]
    ELSE [user |-> NoneObj, error |-> "User not found"]

\* agents_table.get_item(Key={'agent_email': a}): whether the response has an Item.
HasItem(table, a) == \E item \in table : item.agent_email = a

\* agents_table.put_item(Item=item): the item replaces the item of its key, if any.
put_item(table, item) ==
    {x \in table : x.agent_email # item.agent_email} \cup {item}

Requests == {1, 2}

\* The bodies of the requests: complete and right, with a wrong invite code,
\* with a wrong sid, without email.
RequestBodies(email, sid) ==
    { [email |-> email, sid |-> sid, invite_code |-> INVITE_CODE],
      [email |-> email, sid |-> sid, invite_code |-> "guess"],
      [email |-> email, sid |-> "sid-0", invite_code |-> INVITE_CODE],
      [sid |-> sid, invite_code |-> INVITE_CODE] }

\* The allocations the table holds before the requests arrive.
InitialAllocations ==
    { {},
      { [agent_email |-> "bold-wolf-10@superagent.diy", email |-> "u0@x.com"] } }

\* The user whose invitation request r carries.
RequestUser(r) == IF r = 1 THEN [email |-> "u1@x.com", sid |-> "sid-1"]
                  ELSE [email |-> "u2@x.com", sid |-> "sid-2"]

InviteInit ==
    /\ pc = "idle"
    /\ ACCESS_TOKEN = None
    /\ TOOL_SET = <<>>
    /\ runs = NoneObj
    /\ agents_table \in InitialAllocations
    /\ \E body \in [Requests -> UNION {RequestBodies(RequestUser(r).email, RequestUser(r).sid) :
                                          r \in Requests}] :
          /\ \A r \in Requests :
                body[r] \in RequestBodies(RequestUser(r).email, RequestUser(r).sid)
          /\ requests = [r \in Requests |->
                           [pc          |-> "start",
                            body        |-> body[r],
                            user_data   |-> NoneObj,
                            attempt     |-> 0,
                            agent_email |-> None,
                            stored      |-> NoneObj,
                            response    |-> NoneObj]]
    /\ payload = NoneObj
    /\ plan_reply = NoneObj
    /\ email_data = NoneObj
    /\ execution_plan = NoneObj
    /\ validated_steps = <<>>
    /\ execution_results = <<>>
    /\ executed = <<>>
    /\ ncalls = NoCalls
    /\ last = NoneObj
    /\ ret = NoneObj
    /\ fcall = NoneObj
    /\ outcome = NoneObj

InviteFrame ==
    UNCHANGED <<pc, ACCESS_TOKEN, TOOL_SET, payload, plan_reply, email_data, execution_plan,
                validated_steps, execution_results, executed, ncalls, last, ret, runs,
                fcall, outcome>>

\* validate_invite up to generate_agent_email: the body is parsed and checked,
\* the user read, sid and invite code compared.
CheckRequest(r) ==
    LET body == requests[r].body
        email == Get(body, "email", None)
        sid == Get(body, "sid", None)
        invite_code == Get(body, "invite_code", None)
        found == get_user_from_dynamodb(email)
        refused(status_code, error) ==
            requests' = [requests EXCEPT
                           ![r].pc = "done",
                           ![r].response = create_response(status_code,
                                               [success |-> FALSE, error |-> error])]
    IN  /\ requests[r].pc = "start"
        /\ InviteFrame
        /\ IF Falsy(email) THEN refused(400, "Email is required")
           ELSE IF Falsy(sid) THEN refused(400, "SID is required")
           ELSE IF Falsy(invite_code) THEN refused(400, "Invite code is required")
           ELSE IF found.error # None THEN refused(404, "User not found")
           ELSE IF Get(found.user, "sid", None) # sid
           THEN refused(403, "Invalid SID - authentication failed")
           ELSE IF invite_code # INVITE_CODE THEN refused(400, "Invalid invite code")
           ELSE requests' = [requests EXCEPT ![r].pc = "generate",
                                             ![r].user_data = found.user]
        /\ UNCHANGED agents_table

\* One turn of the loop of generate_agent_email: an address is drawn and
\* looked up; get_item can raise.
GenerateAttempt(r) ==
    /\ requests[r].pc = "generate"
    /\ InviteFrame
    /\ \E candidate \in CandidateEmails, raises \in BOOLEAN :
         requests' =
            IF raises \/ (HasItem(agents_table, candidate)
                          /\ requests[r].attempt + 1 >= MaxAttempts)
            THEN [requests EXCEPT
                    ![r].pc = "done",
                    ![r].response =
                        create_response(500,
                            [success |-> FALSE,
                             error |-> "Failed to generate unique agent email"])]
            ELSE IF HasItem(agents_table, candidate)
            THEN [requests EXCEPT ![r].attempt = @ + 1]
            ELSE [requests EXCEPT ![r].pc = "store", ![r].agent_email = candidate]
    /\ UNCHANGED agents_table

\* store_agent_email: put_item of the mapping, or the exception it turns into
\* (False, error).
StoreAgentEmail(r) ==
    LET item == [agent_email |-> requests[r].agent_email,
                 email       |-> requests[r].user_data.email]
    IN  /\ requests[r].pc = "store"
        /\ InviteFrame
        /\ \E raises \in BOOLEAN :
             IF raises
             THEN /\ requests' = [requests EXCEPT
                       ![r].pc = "done",
                       ![r].response = create_response(500,
                           [success |-> FALSE, error |-> "Failed to store agent email"])]
                  /\ UNCHANGED agents_table
             ELSE /\ agents_table' = put_item(agents_table, item)
                  /\ requests' = [requests EXCEPT ![r].pc = "welcome",
                                                  ![r].stored = item]

\* The welcome email and the success response.
SendWelcome(r) ==
    /\ requests[r].pc = "welcome"
    /\ InviteFrame
    /\ \E email_sent \in BOOLEAN :
         requests' = [requests EXCEPT
            ![r].pc = "done",
            ![r].response =
                create_response(200,
                    [success |-> TRUE,
                     message |-> "Invite validated successfully",
                     user    |-> [email       |-> requests[r].user_data.email,
                                  user_name   |-> Get(requests[r].user_data,
                                                      "user_name", ""),
                                  agent_email |-> requests[r].agent_email,
                                  email_sent  |-> email_sent]])]
    /\ UNCHANGED agents_table

InviteNext ==
    \E r \in Requests :
        \/ CheckRequest(r)
        \/ GenerateAttempt(r)
        \/ StoreAgentEmail(r)
        \/ SendWelcome(r)

SpecInvite == InviteInit /\ [][InviteNext]_vars

-----------------------------------------------------------------------------
(* utils/gatekeeper.py: the inbound email gatekeeper *)

GATEKEEPER_MAX_EMAIL_SIZE_KB == 100
BytesPerKb == 1024

\* Python values of the SES event: str, list, int. A str is kept by its
\* shape: empty, an address alone, a display name with something in angle
\* brackets, or a text in which neither pattern of extract_email_address
\* matches. An address is its local part and its domain.
Address(local, domain) == [local |-> local, domain |-> domain]
EmptyString == [type |-> "str", form |-> "empty"]
Plain(address) == [type |-> "str", form |-> "plain", address |-> address]
Named(name, inner) == [type |-> "str", form |-> "angle", name |-> name, inner |-> inner]
Malformed(text) == [type |-> "str", form |-> "malformed", text |-> text]
PyList(items) == [type |-> "list", items |-> items]
PyInt(n) == [type |-> "int", value |-> n]

\* not x, for a value that is None, a str or a list.
NotTruthy(x) ==
    \/ x = NoneObj
    \/ x.type = "str" /\ x.form = "empty"
    \/ x.type = "list" /\ x.items = <<>>

\* extract_email_address: what is in the angle brackets, else the address
\* the second pattern finds, else the string as it is.
extract_email_address(email_string) ==
    IF NotTruthy(email_string) THEN NoneObj
    ELSE IF email_string.form = "angle" THEN email_string.inner
    ELSE email_string

\* normalize_list_field, as a sequence.
normalize_list_field(value) ==
    IF value # NoneObj /\ value.type = "list" THEN value.items
    ELSE IF ~NotTruthy(value) THEN <<value>>
    ELSE <<>>

\* str.lower on the parts of the addresses of the events.
LowerText(t) ==
    CASE t = "VIP" -> "vip"
      [] t = "Partner.COM" -> "partner.com"
      [] t = "Superagent.DIY" -> "superagent.diy"
      [] OTHER -> t

LowerString(x) ==
    IF x.form = "plain"
    THEN Plain(Address(LowerText(x.address.local), LowerText(x.address.domain)))
    ELSE IF x.form = "malformed" THEN Malformed(LowerText(x.text))
    ELSE x

\* One part of GATEKEEPER_EXCEPTION_EMAILS.split(','): a string with or
\* without whitespace around it; strip() leaves the string.
Part(padded, chars) == [padded |-> padded, chars |-> chars]
StripPart(part) == part.chars

\* get_exception_emails, on the parts of the variable.
get_exception_emails(exception_parts) ==
    SelectSeq([i \in 1..Len(exception_parts) |-> StripPart(exception_parts[i])],
              LAMBDA email : ~NotTruthy(email))

\* x.endswith('@superagent.diy'): of the texts of the events, the addresses
\* of that domain.
EndsWithSuperagentDiy(x) ==
    x.form = "plain" /\ x.address.domain = "superagent.diy"

is_superagent_diy_domain(email) ==
    IF NotTruthy(email) THEN FALSE
    ELSE LET extracted_email == extract_email_address(email)
         IN  IF NotTruthy(extracted_email) THEN FALSE
             ELSE EndsWithSuperagentDiy(LowerString(extracted_email))

\* event.get('Records', [{}])[0].get('ses', {}).get('mail', {}): the mail, or
\* the IndexError of an empty Records list.
MailOf(event) ==
    LET records == Get(event, "Records", <<[x \in {} |-> NoneObj]>>)
    IN  IF records = <<>> THEN Raise("list index out of range")
        ELSE Ok(Get(Get(records[1], "ses", [x \in {} |-> NoneObj]),
                    "mail", [x \in {} |-> NoneObj]))

\* check_email_size: [result, error]; an exception lets the email through.
check_email_size(event) ==
    LET mail == MailOf(event)
        size_bytes == Get(mail.val, "size", PyInt(0))
    IN  IF ~mail.ok THEN [result |-> TRUE, error |-> TRUE]
        ELSE IF size_bytes = NoneObj \/ size_bytes.type # "int"
        THEN [result |-> TRUE, error |-> TRUE]
        ELSE [result |-> size_bytes.value <= GATEKEEPER_MAX_EMAIL_SIZE_KB * BytesPerKb,
              error  |-> FALSE]

\* The cleaning loop of extract_email_addresses_from_event.
RECURSIVE CleanAddresses(_, _)
CleanAddresses(email_addresses, cleaned_addresses) ==
    IF email_addresses = <<>> THEN cleaned_addresses
    ELSE LET extracted == extract_email_address(Head(email_addresses))
         IN  CleanAddresses(Tail(email_addresses),
                 IF ~NotTruthy(extracted)
                    /\ \A i \in 1..Len(cleaned_addresses) : cleaned_addresses[i] # extracted
                 THEN Append(cleaned_addresses, extracted)
                 ELSE cleaned_addresses)

\* extract_email_addresses_from_event: [addresses, error]
extract_email_addresses_from_event(event) ==
    LET mail == MailOf(event)
        common_headers == Get(mail.val, "commonHeaders", [x \in {} |-> NoneObj])
        from_address == Get(mail.val, "source", EmptyString)
        to_addresses ==
            normalize_list_field(Get(common_headers, "to",
                                     Get(mail.val, "destination", PyList(<<>>))))
        cc_addresses == normalize_list_field(Get(common_headers, "cc", PyList(<<>>)))
    IN  IF ~mail.ok THEN [addresses |-> <<>>, error |-> TRUE]
        ELSE [addresses |->
                 CleanAddresses((IF NotTruthy(from_address) THEN <<>>
                                 ELSE <<from_address>>)
                                \o to_addresses \o cc_addresses, <<>>),
              error |-> FALSE]

\* check_exception_emails
check_exception_emails(exception_parts, email_addresses) ==
    LET exception_emails == get_exception_emails(exception_parts)
    IN  IF exception_emails = <<>> THEN FALSE
        ELSE \E i \in 1..Len(email_addresses) :
                LET extracted_email == extract_email_address(email_addresses[i])
                IN  /\ ~NotTruthy(extracted_email)
                    /\ \E j \in 1..Len(exception_emails) :
                          LowerString(extracted_email) = LowerString(exception_emails[j])

\* check_agent_allocation: [result, found, error]. dynamodb gives the items of
\* the table, whether dynamodb.Table raises and whether scan raises.
check_agent_allocation(dynamodb, email_addresses) ==
    LET scanned == \E i \in 1..Len(email_addresses) :
                      \E item \in dynamodb.items :
                          Plain(item.agent_email) = email_addresses[i]
    IN  IF email_addresses = <<>>
        THEN [result |-> FALSE, found |-> FALSE, error |-> FALSE]
        ELSE IF dynamodb.table_raises
        THEN [result |-> TRUE, found |-> FALSE, error |-> TRUE]
        ELSE IF dynamodb.scan_raises
        THEN [result |-> FALSE, found |-> FALSE, error |-> TRUE]
        ELSE [result |-> scanned, found |-> scanned, error |-> FALSE]

\* What gatekeeper returns, with the notice sent to the sender and what its
\* checks met on the way.
Disposition(disposition, rejection, extraction, size, matched, allocation) ==
    [disposition       |-> disposition,
     rejection         |-> rejection,
     email_addresses   |-> extraction.addresses,
     extraction_error  |-> extraction.error,
     size_error        |-> size.error,
     exception_matched |-> matched,
     table_error       |-> allocation.error,
     allocation_found  |-> allocation.found]

\* A check that gatekeeper returned without making.
NotChecked == [result |-> FALSE, found |-> FALSE, error |-> FALSE]

\* gatekeeper. The functions it calls in the try block catch what they raise.
gatekeeper(event, exception_parts, dynamodb) ==
    LET extraction == extract_email_addresses_from_event(event)
        email_addresses == extraction.addresses
        size == check_email_size(event)
        matched == check_exception_emails(exception_parts, email_addresses)
        superagent_emails == SelectSeq(email_addresses, is_superagent_diy_domain)
        allocation == check_agent_allocation(dynamodb, superagent_emails)
    IN  IF email_addresses = <<>>
        THEN Disposition("stop_rule_set", "no addresses", extraction, NotChecked, FALSE,
                         NotChecked)
        ELSE IF ~size.result
        THEN Disposition("stop_rule_set", "size", extraction, size, FALSE, NotChecked)
        ELSE IF matched
        THEN Disposition("continue", None, extraction, size, TRUE, NotChecked)
        ELSE IF superagent_emails = <<>>
        THEN Disposition("stop_rule_set", "no superagent address", extraction, size, FALSE,
                         NotChecked)
        ELSE IF allocation.result
        THEN Disposition("continue", None, extraction, size, FALSE, allocation)
        ELSE Disposition("stop_rule_set", "no allocation", extraction, size, FALSE,
                         allocation)

\* The headers of the events.
Vip == Plain(Address("VIP", "Partner.COM"))
Stranger == Plain(Address("bob", "example.com"))
AllocatedAgent == Plain(Address("bold-wolf-10", "superagent.diy"))
FreeAgent == Plain(Address("calm-star-42", "Superagent.DIY"))

Sources == {EmptyString, Named("The Boss", Vip), Stranger}
ToHeaders ==
    { PyList(<<AllocatedAgent>>),
      PyList(<<FreeAgent, Named("Bob", Stranger)>>),
      Named("Agent", AllocatedAgent),
      PyList(<<Malformed("undisclosed-recipients:;")>>),
      PyList(<<>>) }
CcHeaders == {NoneObj, PyList(<<Vip, Stranger>>)}

\* mail.size in bytes: small, the limit, one byte more, null, a string.
Sizes == { PyInt(51200),
           PyInt(GATEKEEPER_MAX_EMAIL_SIZE_KB * BytesPerKb),
           PyInt(GATEKEEPER_MAX_EMAIL_SIZE_KB * BytesPerKb + 1),
           NoneObj,
           Malformed("51200") }

MailWith(source, to, cc, size) ==
    [messageId |-> "m-1", source |-> source, size |-> size,
     commonHeaders |-> IF cc = NoneObj THEN [to |-> to, subject |-> "Hello"]
                       ELSE [to |-> to, cc |-> cc, subject |-> "Hello"]]

\* The SES events: one record with a mail, a mail with destination and no
\* headers and no size, and an empty Records list.
Events ==
    { [Records |-> <<[ses |-> [mail |-> MailWith(source, to, cc, size)]]>>] :
          source \in Sources, to \in ToHeaders, cc \in CcHeaders, size \in Sizes }
    \cup { [Records |-> <<[ses |-> [mail |-> [source      |-> Stranger,
                                             destination |-> PyList(<<AllocatedAgent>>)]]]>>],
           [Records |-> <<>>] }

\* GATEKEEPER_EXCEPTION_EMAILS: unset, one address, two with an empty part.
ExceptionSettings ==
    { <<>>,
      <<Part(FALSE, Plain(Address("vip", "partner.com")))>>,
      <<Part(TRUE, Plain(Address("Vip", "partner.com"))), Part(TRUE, EmptyString),
        Part(FALSE, Plain(Address("ops", "example.org")))>> }

\* The allocation table and the failures of its access.
Tables ==
    { [items |-> items, table_raises |-> table_raises, scan_raises |-> scan_raises] :
          items \in { {}, { [agent_email |-> Address("bold-wolf-10", "superagent.diy"),
                            email       |-> "u1@x.com"] } },
          table_raises \in BOOLEAN, scan_raises \in BOOLEAN }

GatekeeperCalls ==
    { [fn |-> "gatekeeper", event |-> event, exception_parts |-> exception_parts,
       dynamodb |-> dynamodb] :
          event \in Events, exception_parts \in ExceptionSettings, dynamodb \in Tables }

GatekeeperInit ==
    /\ Idle
    /\ fcall \in GatekeeperCalls
    /\ outcome = NoneObj

Gatekeeper ==
    /\ outcome = NoneObj
    /\ fcall.fn = "gatekeeper"
    /\ outcome' = gatekeeper(fcall.event, fcall.exception_parts, fcall.dynamodb)
    /\ UNCHANGED <<fcall, runVars>>

GatekeeperNext == Gatekeeper

SpecGatekeeper == GatekeeperInit /\ [][GatekeeperNext]_vars

-----------------------------------------------------------------------------
(* Properties *)

StepActions == ToolExecutionStep \/ CommunicateStep \/ ReplanStep \/ UnknownIntentStep

Completed == pc = "done" /\ "status" \in DOMAIN ret
Stepped == last # NoneObj
LastStep == validated_steps[last.index]
LastResult == execution_results[last.index]
\* The sub-agent of the latest step answered JSON text.
LastReplyIsJson == Stepped /\ last.reply # NoneObj /\ ~last.reply.raised
                   /\ last.reply.text.json
LastReplyData == last.reply.text.data
NumberOf(results, status) ==
    Cardinality({i \in 1..Len(results) : results[i].status = status})

\* C1: for a validated plan of N steps execute_step is called once per step whatever
\* the outcomes, a failed step does not stop the loop, and the run returns N results.
C1_EveryStepExecutedOnce ==
    /\ Len(executed) = Len(execution_results)
    /\ Len(executed) <= Len(validated_steps)
    /\ (pc = "executing" /\ Len(execution_results) < Len(validated_steps))
          => ENABLED StepActions
    /\ Completed => /\ Len(executed) = Len(validated_steps)
                    /\ Len(execution_results) = Len(validated_steps)
                    /\ Len(ret.execution_results) = Len(validated_steps)

\* A three-step run that is complete although its first step failed.
C1_Witness ==
    /\ Completed
    /\ Len(validated_steps) = 3
    /\ execution_results[1].status = "error"
    /\ Len(executed) = 3

\* C2: the i-th call of execute_step gets plan.steps[i] and the i-th result carries
\* its executionOrder, also when the executionOrder values decrease or repeat.
C2_ListOrder ==
    \A i \in 1..Len(executed) :
        /\ executed[i] = validated_steps[i]
        /\ i <= Len(execution_results)
              => execution_results[i].executionOrder = validated_steps[i].executionOrder

\* A complete run over a plan whose executionOrder values go 2, 1, 1.
C2_Witness ==
    /\ Completed
    /\ Len(validated_steps) = 3
    /\ validated_steps[1].executionOrder > validated_steps[2].executionOrder
    /\ validated_steps[2].executionOrder = validated_steps[3].executionOrder
    /\ Len(execution_results) = 3

\* The history the latest step was given, and the one serialized to its sub-agent,
\* are the results of the steps before it.
HistoryIsPriorResults ==
    Stepped =>
        /\ last.history = SubSeq(execution_results, 1, last.index - 1)
        /\ \A k \in 1..Len(last.prompts) :
              LET h == last.prompts[k].input.previousExecutionResults
              IN  /\ Len(h) = last.index - 1
                  /\ \A j \in 1..Len(h) : h[j] = execution_results[j]

RecordedResultsKept ==
    \A i \in 1..Len(execution_results) :
        /\ i <= Len(execution_results')
        /\ execution_results'[i] = execution_results[i]

\* C3: step i is given exactly the results of steps 1..i-1, in order, and no step
\* changes a result that is already recorded.
C3_HistoryIsSnapshotOfPriorSteps ==
    []HistoryIsPriorResults /\ [][RecordedResultsKept]_vars

\* The third step of a plan invoked a sub-agent, after two recorded results.
C3_Witness ==
    /\ Stepped
    /\ last.index = 3
    /\ last.prompts # <<>>
    /\ Len(last.prompts[1].input.previousExecutionResults) = 2

\* C4: the summary has total_steps = number of plan steps, successful_steps = number
\* of results with status success, failed_steps = total_steps - successful_steps.
C4_SummaryCounts ==
    Completed =>
        /\ ret.total_steps = Len(validated_steps)
        /\ ret.successful_steps = NumberOf(execution_results, "success")
        /\ ret.failed_steps = ret.total_steps - ret.successful_steps
        /\ ret.failed_steps = NumberOf(execution_results, "error")

\* Three steps, the second a tool_execution step the request builder answered with
\* status error: three results, two successful, one failed.
C4_Witness ==
    /\ Completed
    /\ Len(validated_steps) = 3
    /\ validated_steps[2].intent = "tool_execution"
    /\ execution_results[2].error = "no attendee given"
    /\ ret.total_steps = 3
    /\ Len(ret.execution_results) = 3
    /\ ret.successful_steps = 2
    /\ ret.failed_steps = 1

\* The latest step met one of the failures that raise inside execute_step.
LastStepRaised ==
    /\ Stepped
    /\ \/ create_current_step(executed[last.index]).ok = FALSE
             /\ executed[last.index].intent = "tool_execution"
       \/ last.reply # NoneObj /\ last.reply.raised
       \/ last.reply # NoneObj /\ ~last.reply.raised /\ ~last.reply.text.json
       \/ LastReplyIsJson /\ LastReplyData.status = "error"
             /\ "error" \notin DOMAIN LastReplyData
       \/ LastReplyIsJson /\ LastReplyData.status = "success"
             /\ "apiPayload" \notin DOMAIN LastReplyData
       \/ last.http # NoneObj /\ last.http.kind = "network_error"
       \/ last.http # NoneObj /\ last.http.kind = "json"
             /\ "result" \in DOMAIN last.http.data /\ last.http.data.result.isError
       \/ last.http # NoneObj /\ last.http.kind = "json"
             /\ "error" \in DOMAIN last.http.data
       \/ executed[last.index].intent
             \notin {"tool_execution", "communicate", "replan"}

\* C5: an exception raised while a step executes is caught in execute_step and
\* becomes a result with status error and the exception message; it never reaches
\* execute_plan, so the run still ends with a summary.
C5_StepExceptionsBecomeErrorResults ==
    /\ Stepped => /\ last.index = Len(execution_results)
                  /\ last.caught # None
                        => LastResult.status = "error" /\ LastResult.error = last.caught
    /\ LastStepRaised => last.caught # None /\ LastResult.status = "error"
    /\ (Stepped /\ last.reply # NoneObj /\ last.reply.raised)
          => LastResult.error = last.reply.err
    \* a failure of the SES client is caught in send_ses_email and arrives as an
    \* error status, which execute_step turns into an error result
    /\ (Stepped /\ last.ses # NoneObj /\ ~last.ses.ok)
          => /\ LastResult.status = "error"
             /\ LastResult.error = "Failed to send email via SES: " \o last.ses.err
    /\ (pc = "done" /\ execution_plan # NoneObj) => Completed

\* The gateway call of the second step failed on the network and the run went on.
C5_Witness ==
    /\ Stepped
    /\ last.index = 2
    /\ last.http # NoneObj
    /\ last.http.kind = "network_error"
    /\ LastResult.status = "error"
    /\ LastResult.error = "Failed to call tool calendar: 503 Server Error"

\* C6: invoke returns a map holding one error string or a summary with status
\* completed, for every payload and every behaviour of the collaborators; it
\* always comes to a return.
C6_InvokeNeverRaises ==
    /\ pc = "done" => \/ DOMAIN ret = {"error"}
                      \/ "status" \in DOMAIN ret /\ ret.status = "completed"
    /\ pc # "done" => ret = NoneObj /\ ENABLED Next

\* A payload json.dumps rejects ends in the outermost except clause.
C6_Witness ==
    /\ pc = "done"
    /\ payload.type = "bytes"
    /\ ret = [error |-> "Unexpected error: Object of type bytes is not JSON serializable"]

InvalidPayload ==
    \/ payload.type # "dict"
    \/ \E i \in 1..Len(EmailRequiredFields) : EmailRequiredFields[i] \notin DOMAIN payload.d

MalformedStep(step_data) ==
    \/ \E f \in {"executionOrder", "intent", "stepOutcome", "context"} :
          f \notin DOMAIN step_data
    \/ step_data.intent = "tool_execution" /\ "toolName" \notin DOMAIN step_data

\* The planning agent failed, answered no JSON, or a plan the schema rejects.
PlanningFails(reply) ==
    \/ reply.raised
    \/ ~reply.text.json
    \/ \E f \in {"goal", "deliverable", "steps"} : f \notin DOMAIN reply.text.data
    \/ \E i \in 1..Len(reply.text.data.steps) : MalformedStep(reply.text.data.steps[i])

\* C7: no sub-agent is invoked for an invalid payload; when planning fails invoke
\* returns an error and no step, tool gateway or notification call is made; a step
\* is executed only with a validated email and a validated plan.
C7_NoStepWithoutValidInputAndPlan ==
    /\ InvalidPayload => ncalls = NoCalls /\ plan_reply = NoneObj /\ executed = <<>>
    /\ (plan_reply # NoneObj /\ PlanningFails(plan_reply))
          => /\ pc = "done"
             /\ DOMAIN ret = {"error"}
             /\ executed = <<>>
             /\ execution_results = <<>>
             /\ ncalls = [NoCalls EXCEPT !.planner = 1]
    /\ executed # <<>> => email_data # NoneObj /\ execution_plan # NoneObj

\* Planning failed on the second step of a plan whose first step is well formed.
C7_Witness ==
    /\ pc = "done"
    /\ plan_reply # NoneObj
    /\ ~plan_reply.raised
    /\ plan_reply.text.json
    /\ "steps" \in DOMAIN plan_reply.text.data
    /\ Len(plan_reply.text.data.steps) >= 2
    /\ ~MalformedStep(plan_reply.text.data.steps[1])
    /\ MalformedStep(plan_reply.text.data.steps[2])
    /\ ret = [error |-> "Planning phase failed: Missing toolName for tool_execution step 1"]

\* C8: every request sent to the gateway has params.arguments.auth_email equal to
\* the agent_email of the email, whatever auth_email the request builder supplied.
C8_AuthEmailIsCallerIdentity ==
    Stepped =>
        \A k \in 1..Len(last.sent) :
            /\ "auth_email" \in DOMAIN last.sent[k].json.params.arguments
            /\ last.sent[k].json.params.arguments.auth_email = payload.d.agent_email

\* A request went out for a payload that carried another auth_email.
C8_Witness ==
    /\ LastReplyIsJson
    /\ "apiPayload" \in DOMAIN LastReplyData
    /\ "auth_email" \in DOMAIN LastReplyData.apiPayload
    /\ LastReplyData.apiPayload.auth_email = "attacker@evil.com"
    /\ Len(last.sent) = 1

\* C9: a tool_execution step whose validated builder response has status error or
\* needs_clarification ends with status error (the builder's message, or the fixed
\* clarification message) and sends nothing to the gateway.
C9_BuilderFailureSkipsGateway ==
    (LastReplyIsJson /\ LastStep.intent = "tool_execution"
        /\ "status" \in DOMAIN LastReplyData) =>
        /\ (LastReplyData.status = "error" /\ "error" \in DOMAIN LastReplyData)
              => /\ LastResult.status = "error"
                 /\ LastResult.error = LastReplyData.error
                 /\ last.sent = <<>>
        /\ LastReplyData.status = "needs_clarification"
              => /\ LastResult.status = "error"
                 /\ LastResult.error = "Request builder needs clarification"
                 /\ last.sent = <<>>

\* The builder reported an error with a usable token at hand, and nothing was sent.
C9_Witness ==
    /\ LastReplyIsJson
    /\ LastStep.intent = "tool_execution"
    /\ LastReplyData.status = "error"
    /\ "error" \in DOMAIN LastReplyData
    /\ ACCESS_TOKEN # None
    /\ ncalls.gateway = 0
    /\ LastResult.error = "no attendee given"

\* The gateway answered the latest step with a result envelope that is no error and
\* whose first content item is JSON text.
GatewayReturnedValue ==
    /\ Stepped
    /\ last.http # NoneObj
    /\ last.http.kind = "json"
    /\ "result" \in DOMAIN last.http.data
    /\ ~last.http.data.result.isError
    /\ last.http.data.result.content[1].type = "text"
    /\ last.http.data.result.content[1].text.json

\* C10: builder status success and a structured gateway result: one gateway call
\* with the step's tool name, the builder's apiPayload and the agent_email; the
\* result has status success and toolResponse is the unwrapped gateway value.
C10_SuccessfulToolCall ==
    /\ (LastReplyIsJson /\ LastStep.intent = "tool_execution"
          /\ "status" \in DOMAIN LastReplyData /\ LastReplyData.status = "success"
          /\ "apiPayload" \in DOMAIN LastReplyData /\ ACCESS_TOKEN # None)
          => Len(last.sent) = 1
    /\ (LastReplyIsJson /\ LastStep.intent = "tool_execution"
          /\ LastReplyData.status = "success" /\ GatewayReturnedValue) =>
          LET params == last.sent[1].json.params
              given  == LastReplyData.apiPayload
          IN  /\ Len(last.sent) = 1
              /\ params.name = LastStep.toolName
              /\ DOMAIN params.arguments = DOMAIN given \cup {"auth_email"}
              /\ \A k \in DOMAIN given \ {"auth_email"} : params.arguments[k] = given[k]
              /\ params.arguments.auth_email = email_data.agent_email
              /\ LastResult.status = "success"
              /\ LastResult.toolResponse = last.http.data.result.content[1].text.data

\* A tool step succeeded with the value the gateway wrapped.
C10_Witness ==
    /\ LastReplyIsJson
    /\ LastStep.intent = "tool_execution"
    /\ LastReplyData.status = "success"
    /\ GatewayReturnedValue
    /\ LastResult.toolResponse = [a |-> 1]
    /\ LastResult.toolCalled

\* C17: nothing is retried.  One step makes at most one sub-agent invocation and
\* at most one gateway request or one notification send, also when one of them
\* fails; a network failure or a non-2xx status of the gateway request is raised
\* again and ends the step with an error result.
C17_NoRetry ==
    /\ Stepped =>
          /\ Len(last.prompts) <= 1
          /\ Len(last.sent) + Len(last.mails) <= 1
          /\ LastStep.intent = "tool_execution" => last.mails = <<>>
          /\ LastStep.intent = "communicate" => last.sent = <<>>
    /\ ncalls.request_builder + ncalls.communication <= Len(executed)
    /\ ncalls.gateway + ncalls.ses <= Len(executed)
    /\ (Stepped /\ last.http # NoneObj /\ last.http.kind = "network_error") =>
          /\ Len(last.sent) = 1
          /\ LastResult.status = "error"
          /\ LastResult.error = "Failed to call tool " \o LastStep.toolName
                                   \o ": " \o last.http.err
          /\ ~LastResult.toolCalled

\* The gateway request of the third step failed on the network after two steps
\* that each had made their one request: three requests in three steps.
C17_Witness ==
    /\ Stepped
    /\ last.index = 3
    /\ last.http # NoneObj
    /\ last.http.kind = "network_error"
    /\ Len(last.prompts) = 1
    /\ Len(last.sent) = 1
    /\ ncalls.gateway = 3
    /\ LastResult.status = "error"

\* C20: every ExecutionPlan validate_execution_plan returns has at least one
\* step: plan data with goal, deliverable and an empty steps list is rejected
\* with a validation error, and no run completes with total_steps = 0.
C20_PlanHasAStep ==
    /\ execution_plan # NoneObj => Len(validated_steps) >= 1
    /\ (plan_reply # NoneObj /\ ~plan_reply.raised /\ plan_reply.text.json
          /\ "steps" \in DOMAIN plan_reply.text.data
          /\ plan_reply.text.data.steps = <<>>)
          => pc = "done" /\ DOMAIN ret = {"error"}
    /\ Completed => ret.total_steps > 0

KnownIntents == {"tool_execution", "communicate", "replan"}

\* C24: a replan step always gives a result with status success and the fixed
\* acknowledgement as toolResponse, whatever results precede it; executing it
\* invokes no sub-agent, posts nothing to the gateway and sends no mail; the
\* planning agent is invoked once per run and never again, however many replan
\* steps the plan has.
C24_ReplanIsAcknowledged ==
    /\ \A i \in 1..Len(execution_results) :
          validated_steps[i].intent = "replan" =>
              /\ execution_results[i].status = "success"
              /\ execution_results[i].toolResponse = [message |-> "Replanning step processed"]
              /\ execution_results[i].error = None
              /\ ~execution_results[i].toolCalled
    /\ (Stepped /\ LastStep.intent = "replan") =>
          /\ last.prompts = <<>>
          /\ last.sent = <<>>
          /\ last.mails = <<>>
          /\ last.caught = None
    /\ ncalls.planner <= 1
    /\ executed # <<>> => ncalls.planner = 1

\* A plan of three replan steps after results of other steps: the third was
\* acknowledged, the planner was invoked once, no other collaborator at all.
C24_Witness ==
    /\ Completed
    /\ Len(validated_steps) = 3
    /\ \A i \in 1..3 : validated_steps[i].intent = "replan"
    /\ ret.successful_steps = 3
    /\ ncalls = [NoCalls EXCEPT !.planner = 1]

\* C25: a step whose intent is none of tool_execution, communicate, replan
\* gives a result with status error whose message names the intent; no
\* sub-agent is invoked, no request posted and no mail sent for it; the loop goes
\* on to the next step of the plan.
C25_UnknownIntentIsAFailedStep ==
    /\ \A i \in 1..Len(execution_results) :
          validated_steps[i].intent \notin KnownIntents =>
              /\ execution_results[i].status = "error"
              /\ execution_results[i].error
                    = "Unknown step intent: " \o validated_steps[i].intent
              /\ execution_results[i].toolResponse = NoneObj
    /\ (Stepped /\ LastStep.intent \notin KnownIntents) =>
          /\ last.prompts = <<>>
          /\ last.sent = <<>>
          /\ last.mails = <<>>
          /\ pc = "executing" \/ Completed
          /\ last.index < Len(validated_steps) => pc = "executing" /\ ENABLED StepActions
    /\ Completed => Len(execution_results) = Len(validated_steps)

\* The first step had an unknown intent and failed; the second step, a
\* tool_execution step, was executed after it and succeeded.
C25_Witness ==
    /\ Stepped
    /\ last.index = 2
    /\ validated_steps[1].intent = "summarize"
    /\ execution_results[1].status = "error"
    /\ execution_results[1].error = "Unknown step intent: summarize"
    /\ validated_steps[2].intent = "tool_execution"
    /\ execution_results[2].status = "success"

\* C27: the ExecutionPlan of a run is never modified: once execute_plan runs,
\* every field of every PlanStep, toolName too, has the value
\* validate_execution_plan gave it.
C27_PlanIsNeverModified ==
    execution_plan # NoneObj =>
        /\ Len(execution_plan.steps) = Len(validated_steps)
        /\ \A i \in 1..Len(validated_steps) : execution_plan.steps[i] = validated_steps[i]

\* The sub-agent of the latest step answered a response that validates with
\* status success and has no apiPayload: the key is absent or its value null.
LastSuccessWithoutPayload ==
    /\ LastReplyIsJson
    /\ LastStep.intent \in {"tool_execution", "communicate"}
    /\ FirstMissing(ResponseRequiredFields, LastReplyData) = None
    /\ LastReplyData.status = "success"
    /\ Get(LastReplyData, "apiPayload", NoneObj) = NoneObj

\* C35: when the response of the sub-agent validates with status success and
\* carries no apiPayload, the step ends with status error, no request is posted
\* to the gateway and no mail is handed to SES, and the loop goes on to the
\* next step of the plan.
C35_SuccessWithoutPayloadFailsTheStep ==
    LastSuccessWithoutPayload =>
        /\ LastResult.status = "error"
        /\ LastResult.error # None
        /\ last.sent = <<>>
        /\ last.mails = <<>>
        /\ pc = "executing" \/ Completed
        /\ last.index < Len(validated_steps) => pc = "executing" /\ ENABLED StepActions

\* With a token set, the request builder answered success without apiPayload
\* for the first step: the step failed without a request, and the second step,
\* a communicate step whose response had a null apiPayload, failed without a
\* mail; the run completed with two failed steps.
C35_Witness ==
    /\ Completed
    /\ ACCESS_TOKEN # None
    /\ Len(validated_steps) = 2
    /\ validated_steps[1].intent = "tool_execution"
    /\ validated_steps[1].toolName = "calendar"
    /\ execution_results[1].error = "'NoneType' object does not support item assignment"
    /\ LastSuccessWithoutPayload
    /\ last.index = 2
    /\ LastStep.intent = "communicate"
    /\ "apiPayload" \in DOMAIN LastReplyData
    /\ execution_results[2].error = "'NoneType' object has no attribute 'get'"
    /\ ncalls.gateway = 0
    /\ ncalls.ses = 0
    /\ ret.failed_steps = 2

-----------------------------------------------------------------------------
(* Properties of the gateway client, under SpecGateway *)

\* call_tool_set_in_sync posted its request, got a JSON body back and ended.
EnvelopeReceived ==
    /\ fcall # NoneObj
    /\ fcall.fn = "call_tool_set_in_sync"
    /\ outcome # NoneObj
    /\ outcome.sent # <<>>
    /\ fcall.http.kind = "json"

Envelope == fcall.http.data

\* str(e) of the exception call_tool_set_in_sync raises for an inner failure.
CallFailure(msg) == "Unexpected error while calling tool " \o fcall.tool_name \o ": " \o msg

\* C11: whenever the envelope the gateway returned has an error field, also
\* next to a result field, call_tool_set_in_sync raises, and the exception
\* carries the message of the remote error.
C11_ErrorEnvelopeFails ==
    (EnvelopeReceived /\ "error" \in DOMAIN Envelope) =>
        /\ ~outcome.out.ok
        /\ "message" \in DOMAIN Envelope.error =>
              outcome.out.err = CallFailure("Tool call failed: " \o Envelope.error.message)

\* The nested result of the envelope is a dict whose isError is true / is not.
ResultIsError ==
    /\ EnvelopeReceived
    /\ "result" \in DOMAIN Envelope
    /\ IsDict(Envelope.result)
    /\ Get(Envelope.result, "isError", FALSE)

ResultIsValue ==
    /\ EnvelopeReceived
    /\ "result" \in DOMAIN Envelope
    /\ IsDict(Envelope.result)
    /\ ~Get(Envelope.result, "isError", FALSE)

ResultContent == Get(Envelope.result, "content", <<>>)

IsTextItem(item) == IsDict(item) /\ item.type = "text"
TextItems(content) == {i \in 1..Len(content) : IsTextItem(content[i])}
FirstTextItem(content) ==
    content[CHOOSE i \in TextItems(content) : \A k \in TextItems(content) : i <= k]

\* C12: when the nested result has isError true the call raises, and the message
\* is that of the first text item alone: the error field of its JSON object,
\* else its raw text.
C12_ErrorMessageFromFirstTextItem ==
    ResultIsError =>
        /\ ~outcome.out.ok
        /\ TextItems(ResultContent) # {} =>
              LET t == FirstTextItem(ResultContent).text
                  message == IF t.json /\ IsDict(t.data) /\ "error" \in DOMAIN t.data
                             THEN t.data.error
                             ELSE t.raw
              IN  outcome.out.err = CallFailure("MCP tool call failed: " \o message)

\* The first text item of the content whose text is not empty.
FilledTextItems(content) == {i \in TextItems(content) : content[i].text.raw # ""}
FirstFilledTextItem(content) ==
    content[CHOOSE i \in FilledTextItems(content) :
                \A k \in FilledTextItems(content) : i <= k]

\* What json.loads of the text of item gives is what the call gave.
ReturnsDecoded(item) ==
    IF item.text.json
    THEN outcome.out = Ok(item.text.data)
    ELSE ~outcome.out.ok

\* C13 as stated: with isError false or absent and a text item in the content,
\* the call returns what JSON-decoding the text of the first text item gives.
C13_DecodesFirstTextItem ==
    (ResultIsValue /\ TextItems(ResultContent) # {}) =>
        ReturnsDecoded(FirstTextItem(ResultContent))

\* C13: with isError false or absent, the call returns what JSON-decoding the
\* text of the first text item with a non-empty text gives, and nothing else;
\* without such an item it raises.
C13_DecodesFirstFilledTextItem ==
    ResultIsValue =>
        IF FilledTextItems(ResultContent) # {}
        THEN ReturnsDecoded(FirstFilledTextItem(ResultContent))
        ELSE ~outcome.out.ok

\* The text {"a":1} behind an image item and an empty text came back as a -> 1.
C13_Witness ==
    /\ ResultIsValue
    /\ Len(ResultContent) = 2
    /\ ~IsTextItem(ResultContent[1]) \/ ResultContent[1].text.raw = ""
    /\ IsTextItem(ResultContent[2])
    /\ ResultContent[2].text.raw = "{\"a\":1}"
    /\ outcome.out = Ok([a |-> 1])

\* The envelope has a result that is a dict with a text item in a content list.
HasTextResult ==
    /\ "result" \in DOMAIN Envelope
    /\ IsDict(Envelope.result)
    /\ TextItems(ResultContent) # {}

GatewayCallEnded ==
    /\ fcall # NoneObj
    /\ fcall.fn \in {"call_tool_set_in_sync", "update_tool_set_in_sync"}
    /\ outcome # NoneObj

\* C15: with the bearer token None both update_tool_set_in_sync and
\* call_tool_set_in_sync raise and no request has been posted, neither a first
\* one nor a repeated one.
C15_NoTokenNoRequest ==
    (GatewayCallEnded /\ fcall.access_token = None) =>
        /\ ~outcome.out.ok
        /\ outcome.sent = <<>>

\* update_tool_set_in_sync was called without a token and raised.
C15_Witness ==
    /\ GatewayCallEnded
    /\ fcall.fn = "update_tool_set_in_sync"
    /\ fcall.access_token = None
    /\ fcall.http.kind = "json"
    /\ outcome = [sent |-> <<>>,
                  out  |-> Raise("Access token not available. Please fetch access token first.")]

\* The tools/list answer was decoded by update_tool_set_in_sync.
ListAnswerDecoded ==
    /\ GatewayCallEnded
    /\ fcall.fn = "update_tool_set_in_sync"
    /\ outcome.sent # <<>>
    /\ fcall.http.kind = "json"

\* C16: update_tool_set_in_sync returns result.tools when the result of the
\* decoded answer is a mapping holding tools, and the empty list, without
\* raising, for every other answer: no result, a result without tools, a
\* result that is no mapping.
C16_ToolsOrEmptyList ==
    ListAnswerDecoded =>
        IF /\ "result" \in DOMAIN Envelope
           /\ IsDict(Envelope.result)
           /\ "tools" \in DOMAIN Envelope.result
        THEN outcome.out = Ok(Envelope.result.tools)
        ELSE outcome.out = Ok(<<>>)

-----------------------------------------------------------------------------
(* Properties of clean_agent_json_response, under SpecSanitizer *)

Cleaned ==
    /\ fcall # NoneObj
    /\ fcall.fn = "clean_agent_json_response"
    /\ fcall.agent_result.type = "str"
    /\ outcome # NoneObj

\* Two decodings agree: both fail, or both give the same value.
SameDecoding(x, y) == x.ok = y.ok /\ (x.ok => x.val = y.val)

\* C18: for a text that is a fenced code block (the opening fence with or
\* without a language tag, whitespace or newlines or none around the fences,
\* newlines inside) JSON-decoding the cleaned text gives what JSON-decoding the
\* text between the fences gives.
C18_FencedBlockDecodesAsItsInterior ==
    (Cleaned /\ fcall.opened /\ fcall.closed) =>
        /\ outcome.out.ok
        /\ SameDecoding(JsonLoadsChars(outcome.out.val), JsonLoadsChars(fcall.between))

\* r is t without its leading and trailing whitespace, nothing else changed: r is
\* a stretch of t, only whitespace lies outside it, and r neither starts nor ends
\* with whitespace.
IsTrimOf(r, t) ==
    \E i \in 1..(Len(t) + 1), j \in 0..Len(t) :
        /\ r = SubSeq(t, i, j)
        /\ \A k \in 1..(i - 1) : IsWhitespace(t[k])
        /\ \A k \in (j + 1)..Len(t) : IsWhitespace(t[k])
        /\ r # <<>> => ~IsWhitespace(r[1]) /\ ~IsWhitespace(r[Len(r)])

\* C19: for a text without a fence clean_agent_json_response returns the text
\* without its leading and trailing whitespace and changes nothing else; it
\* returns a text for every input, also for the empty text and for a text that
\* holds only one of the two fences.
C19_UnfencedTextIsTrimmed ==
    Cleaned =>
        /\ outcome.out.ok
        /\ (~fcall.opened /\ ~fcall.closed) => IsTrimOf(outcome.out.val, fcall.text)
        /\ fcall.text = <<>> => outcome.out.val = <<>>

\* A JSON object on three lines with whitespace before and after it came back
\* without that whitespace and with its inner newlines.
C19_Witness ==
    /\ Cleaned
    /\ ~fcall.opened
    /\ ~fcall.closed
    /\ Len(fcall.text) > 0
    /\ IsWhitespace(fcall.text[1])
    /\ IsWhitespace(fcall.text[Len(fcall.text)])
    /\ outcome.out.val = <<"{", "\n", "\"", "a", "\"", ":", "1", "\n", "}">>

\* The argument was no str and the call has returned.
ObjectCleaned ==
    /\ fcall # NoneObj
    /\ fcall.fn = "clean_agent_json_response"
    /\ fcall.agent_result.type # "str"
    /\ outcome # NoneObj

\* C31: a structured object given to clean_agent_json_response in place of a
\* string is returned as it is: the value returned is that object, not a str
\* holding its string form.
C31_ObjectIsReturnedUnchanged ==
    ObjectCleaned =>
        /\ outcome.out.ok
        /\ StrValue(outcome.out.val) = fcall.agent_result
        /\ outcome.out.val # fcall.agent_result.str

-----------------------------------------------------------------------------
(* Properties of the validators, under SpecValidator *)

PlanValidated ==
    /\ fcall # NoneObj
    /\ fcall.fn = "validate_execution_plan"
    /\ outcome # NoneObj

\* The keys a step must have that step_data lacks.
LackingFields(step_data) ==
    {f \in {"executionOrder", "intent", "stepOutcome", "context"} : f \notin DOMAIN step_data}
    \cup (IF /\ "intent" \in DOMAIN step_data
             /\ step_data.intent = "tool_execution"
             /\ "toolName" \notin DOMAIN step_data
          THEN {"toolName"} ELSE {})

\* The indexes (0-based, as in the messages) of the malformed steps.
MalformedSteps(steps) == {i \in 0..(Len(steps) - 1) : LackingFields(steps[i + 1]) # {}}

\* The message names field f and step i.
NamesFieldAndStep(msg, f, i) ==
    \/ msg = "Missing required field in step " \o Str(i) \o ": " \o f
    \/ f = "toolName" /\ msg = "Missing toolName for tool_execution step " \o Str(i)

\* C21 as stated: whenever a step of the plan data is malformed,
\* validate_execution_plan raises an error that names a lacking field and the
\* index of its step, and returns no plan.
C21_MalformedStepIsNamed ==
    (PlanValidated /\ MalformedSteps(fcall.plan_data.steps) # {}) =>
        /\ ~outcome.out.ok
        /\ \E i \in MalformedSteps(fcall.plan_data.steps) :
             \E f \in LackingFields(fcall.plan_data.steps[i + 1]) :
                NamesFieldAndStep(outcome.out.err, f, i)

\* C21: for plan data that has goal and deliverable, whenever a step is
\* malformed validate_execution_plan raises and returns no plan; the error names
\* the first malformed step and a field it lacks, wherever that step stands and
\* however many well-formed steps precede it.
C21_FirstMalformedStepIsNamed ==
    (PlanValidated /\ MalformedSteps(fcall.plan_data.steps) # {}
        /\ {"goal", "deliverable"} \subseteq DOMAIN fcall.plan_data) =>
        LET bad == MalformedSteps(fcall.plan_data.steps)
            i   == CHOOSE x \in bad : \A y \in bad : x <= y
        IN  /\ ~outcome.out.ok
            /\ \E f \in LackingFields(fcall.plan_data.steps[i + 1]) :
                  NamesFieldAndStep(outcome.out.err, f, i)

\* A well-formed step, then a tool_execution step without toolName: the error
\* names toolName and step 1.
C21_Witness ==
    /\ PlanValidated
    /\ Len(fcall.plan_data.steps) = 2
    /\ MalformedSteps(fcall.plan_data.steps) = {1}
    /\ outcome.out = Raise("Missing toolName for tool_execution step 1")

\* C22: in every ExecutionPlan validate_execution_plan returns, each step with
\* intent tool_execution has a toolName that is neither empty nor null.
C22_ToolStepsHaveToolName ==
    (PlanValidated /\ outcome.out.ok) =>
        \A i \in 1..Len(outcome.out.val.steps) :
            outcome.out.val.steps[i].intent = "tool_execution"
                => ~Falsy(outcome.out.val.steps[i].toolName)

\* The plan data is valid: goal and deliverable are there and no step is malformed.
ValidPlanData(d) ==
    /\ {"goal", "deliverable", "steps"} \subseteq DOMAIN d
    /\ MalformedSteps(d.steps) = {}

\* C23: for valid plan data with N steps the plan returned has exactly N steps,
\* and step i has the executionOrder, intent, stepOutcome, context and toolName
\* (None when the input has none) of input step i: no step is dropped,
\* duplicated or moved; goal and deliverable are those of the input.
C23_PlanKeepsEveryStep ==
    (PlanValidated /\ ValidPlanData(fcall.plan_data)) =>
        LET input == fcall.plan_data.steps
        IN  /\ outcome.out.ok
            /\ outcome.out.val.goal = fcall.plan_data.goal
            /\ outcome.out.val.deliverable = fcall.plan_data.deliverable
            /\ Len(outcome.out.val.steps) = Len(input)
            /\ \A i \in 1..Len(input) :
                 LET step == outcome.out.val.steps[i]
                 IN  /\ DOMAIN step = {"executionOrder", "intent", "stepOutcome",
                                       "context", "toolName"}
                     /\ step.executionOrder = input[i].executionOrder
                     /\ step.intent = input[i].intent
                     /\ step.stepOutcome = input[i].stepOutcome
                     /\ step.context = input[i].context
                     /\ step.toolName = Get(input[i], "toolName", None)

\* Two valid steps given in descending executionOrder, the first a replan step
\* with a toolName, came back as two steps in that order.
C23_Witness ==
    /\ PlanValidated
    /\ ValidPlanData(fcall.plan_data)
    /\ Len(fcall.plan_data.steps) = 2
    /\ outcome.out.ok
    /\ outcome.out.val.steps[1].executionOrder = 3
    /\ outcome.out.val.steps[1].toolName = "planner"
    /\ outcome.out.val.steps[2].executionOrder = 1
    /\ outcome.out.val.steps[2].intent = "communicate"
    /\ outcome.out.val.steps[2].toolName = None

CurrentStepCalled ==
    /\ fcall # NoneObj
    /\ fcall.fn = "create_current_step"
    /\ outcome # NoneObj

\* C26: create_current_step returns a CurrentStep (the executionOrder,
\* stepOutcome, context and toolName of the step) exactly when the intent of the
\* step is tool_execution or communicate and its toolName is neither empty nor
\* null; for every other step, every replan step among them, it raises a
\* ValueError and returns nothing.
C26_CurrentStepOnlyForToolOrCommunicate ==
    CurrentStepCalled =>
        IF /\ fcall.step.intent \in {"tool_execution", "communicate"}
           /\ fcall.step.toolName \notin {None, ""}
        THEN outcome.out = Ok([executionOrder |-> fcall.step.executionOrder,
                               stepOutcome    |-> fcall.step.stepOutcome,
                               context        |-> fcall.step.context,
                               toolName       |-> fcall.step.toolName])
        ELSE /\ ~outcome.out.ok
             /\ outcome.out.err = "CurrentStep can only be created from tool_execution or communicate steps with toolName"

\* A replan step that has a toolName was refused.
C26_Witness ==
    /\ CurrentStepCalled
    /\ fcall.step.intent = "replan"
    /\ fcall.step.toolName = "planner"
    /\ ~outcome.out.ok

-----------------------------------------------------------------------------
(* Properties of execute_step on one step, under SpecStep *)

\* The call of execute_step has returned.
StepExecuted == fcall # NoneObj /\ fcall.fn = "execute_step" /\ outcome # NoneObj

\* The sub-agent of the step was invoked and answered a JSON text.
StepAnswered ==
    /\ StepExecuted
    /\ fcall.step.intent \in {"tool_execution", "communicate"}
    /\ outcome.prompts # <<>>
    /\ ~fcall.reply.raised
    /\ fcall.reply.text.json

\* What validation made of the answer.
StepResponse ==
    IF fcall.step.intent = "tool_execution"
    THEN validate_request_builder_response(fcall.reply.text.data)
    ELSE validate_communication_response(fcall.reply.text.data)

ResponseStatuses == {"success", "error", "needs_clarification"}

\* C28: the status of a validated RequestBuilderResponse or
\* CommunicationResponse is one of success, error, needs_clarification, and a
\* request is posted to the gateway (a mail handed to SES) for the step only when
\* that status is success.
C28_OnlySuccessReachesACollaborator ==
    (StepAnswered /\ StepResponse.ok) =>
        /\ StepResponse.val.status \in ResponseStatuses
        /\ (outcome.sent # <<>> \/ outcome.mails # <<>>)
              => StepResponse.val.status = "success"

\* C29: a sub-agent response with status error passes validation only with an
\* error message, and the result of the step then has status error and that
\* message, never a null error; without the message the response is rejected
\* and the step fails on the schema error.
C29_ErrorStatusCarriesAMessage ==
    (StepAnswered /\ fcall.reply.text.data.status = "error") =>
        IF StepResponse.ok
        THEN /\ StepResponse.val.error # None
             /\ outcome.result.status = "error"
             /\ outcome.result.error # None
             /\ outcome.result.error = StepResponse.val.error
        ELSE /\ "error" \notin DOMAIN fcall.reply.text.data
             /\ outcome.result.status = "error"
             /\ outcome.result.error = "Error status requires error message"
             /\ outcome.caught = outcome.result.error

\* The subject begins with the reply marker in some case of its letters.
BeginsWithReplyMarker(subject) ==
    /\ Len(subject) >= 4
    /\ subject[1] \in {"R", "r"}
    /\ subject[2] \in {"E", "e"}
    /\ subject[3] = ":"
    /\ subject[4] = " "

\* C30: for a communicate step whose sub-agent answered status success, the
\* message handed to SES is from agent_email, to the original sender alone,
\* with the cc of the sub-agent payload, and its subject is the original
\* subject if that begins with the reply marker in any case, else the marker
\* followed by the original subject; a send failure makes the step a failed
\* step, a send that works a successful one.
C30_ReplyGoesToTheSender ==
    (StepAnswered /\ fcall.step.intent = "communicate" /\ StepResponse.ok
      /\ StepResponse.val.status = "success") =>
        /\ Len(outcome.mails) <= 1
        /\ StepResponse.val.apiPayload # NoneObj => Len(outcome.mails) = 1
        /\ \A k \in 1..Len(outcome.mails) :
              LET mail == outcome.mails[k]
                  subject == fcall.original_email.subject
              IN  /\ mail.Source = fcall.original_email.agent_email
                  /\ mail.ToAddresses = <<fcall.original_email.from_email>>
                  /\ mail.CcAddresses
                        = IF "cc" \in DOMAIN StepResponse.val.apiPayload
                          THEN StepResponse.val.apiPayload.cc ELSE <<>>
                  /\ mail.Subject = IF BeginsWithReplyMarker(subject) THEN subject
                                    ELSE <<"R", "e", ":", " ">> \o subject
                  /\ outcome.result.status = IF fcall.ses.ok THEN "success" ELSE "error"
                  /\ ~fcall.ses.ok => outcome.result.error # None

\* The subject began with the marker in capitals: the reply with a cc went out
\* under the subject as it was.
C30_Witness ==
    /\ StepAnswered
    /\ fcall.step.intent = "communicate"
    /\ fcall.original_email.subject = <<"R", "E", ":", " ", "L", "u", "n", "c", "h">>
    /\ fcall.ses.ok
    /\ Len(outcome.mails) = 1
    /\ outcome.mails[1].Subject = fcall.original_email.subject
    /\ outcome.mails[1].CcAddresses = <<"c@x.com">>
    /\ outcome.result.status = "success"

\* The gateway's answer to the request of the step is a failure: no answer,
\* an envelope holding an error and no result, or a result flagged isError.
GatewayFailure(http) ==
    \/ http.kind = "network_error"
    \/ /\ http.kind = "json"
       /\ \/ "error" \in DOMAIN http.data /\ "result" \notin DOMAIN http.data
          \/ /\ "result" \in DOMAIN http.data
             /\ Get(http.data.result, "isError", FALSE)

\* C33: the toolCalled of a StepExecutionResult is true exactly when the step
\* is a tool_execution step and the status of the result is success; a
\* tool_execution step whose request was posted and failed at the gateway has
\* toolCalled false, and so has every communicate and replan step.
C33_ToolCalledIffToolSucceeded ==
    StepExecuted =>
        /\ outcome.result.toolCalled
              <=> (fcall.step.intent = "tool_execution" /\ outcome.result.status = "success")
        /\ (fcall.step.intent = "tool_execution" /\ outcome.sent # <<>>
             /\ GatewayFailure(fcall.http))
              => (~outcome.result.toolCalled /\ outcome.result.status = "error")
        /\ fcall.step.intent \in {"communicate", "replan"} => ~outcome.result.toolCalled

\* The request of a tool_execution step was posted and the gateway answered a
\* result flagged isError: the step failed and toolCalled is false.
C33_Witness ==
    /\ StepExecuted
    /\ fcall.step.intent = "tool_execution"
    /\ Len(outcome.sent) = 1
    /\ fcall.http.kind = "json"
    /\ "result" \in DOMAIN fcall.http.data
    /\ fcall.http.data.result.isError
    /\ outcome.result.status = "error"
    /\ ~outcome.result.toolCalled

\* C34: every request posted for a tool_execution step names the toolName of
\* the plan step, whatever toolName the response of the request builder holds;
\* a response without toolName is rejected by validation and nothing is posted.
C34_PlanStepNamesTheTool ==
    (StepExecuted /\ fcall.step.intent = "tool_execution") =>
        /\ \A k \in 1..Len(outcome.sent) :
              /\ outcome.sent[k].json.method = "tools/call"
              /\ outcome.sent[k].json.params.name = fcall.step.toolName
        /\ (StepAnswered /\ "toolName" \notin DOMAIN fcall.reply.text.data) =>
              /\ outcome.sent = <<>>
              /\ outcome.result.status = "error"
              /\ outcome.result.error = "Missing required field: toolName"

\* The request builder named delete_all for a step of the tool calendar: the
\* request posted names calendar, and the step succeeded.
C34_Witness ==
    /\ StepAnswered
    /\ fcall.step.toolName = "calendar"
    /\ "toolName" \in DOMAIN fcall.reply.text.data
    /\ fcall.reply.text.data.toolName = "delete_all"
    /\ Len(outcome.sent) = 1
    /\ outcome.sent[1].json.params.name = "calendar"
    /\ outcome.result.status = "success"

-----------------------------------------------------------------------------
(* Properties of two runs side by side, under SpecConcurrent *)

\* execute_plan of one run on its own: the results of the steps from
\* Len(results) + 1 on, appended to results.
RECURSIVE ExecutePlanAlone(_, _, _, _, _)
ExecutePlanAlone(plan, results, email, token, answers) ==
    IF Len(results) >= Len(plan.steps) THEN results
    ELSE LET i == Len(results) + 1
             o == execute_step(StepAt(plan.steps, i), results, email, token,
                               answers[i].reply, answers[i].http, answers[i].ses)
         IN  ExecutePlanAlone([plan EXCEPT !.steps[i] = o.step],
                              Append(results, o.result), email, token, answers)

\* What invoke returns for the inputs of `run` when no other run goes on and
\* the token is the one of the start of the process.
InvokeAlone(run, token) ==
    LET plan == execute_planning_phase(run.email_data, run.plan_reply)
    IN  IF ~plan.ok
        THEN [results |-> <<>>,
              ret     |-> [error |-> "Planning phase failed: " \o plan.err]]
        ELSE LET results == ExecutePlanAlone(plan.val, <<>>, run.email_data, token,
                                             run.answers)
             IN  [results |-> results, ret |-> Summary(plan.val, results)]

\* C32: ACCESS_TOKEN and TOOL_SET keep the values the start of the process gave
\* them whatever the runs do, and at every point of every interleaving of two
\* runs the results of each run are the first results of that run executed alone
\* with the same collaborator answers; a run that has returned has returned
\* what it returns alone.
C32_RunsAreIndependent ==
    runs # NoneObj =>
        /\ ACCESS_TOKEN = fcall.ACCESS_TOKEN
        /\ TOOL_SET = fcall.TOOL_SET
        /\ \A r \in Runs :
              LET alone == InvokeAlone(runs[r], fcall.ACCESS_TOKEN)
                  n == Len(runs[r].execution_results)
              IN  /\ n <= Len(alone.results)
                  /\ runs[r].execution_results = SubSeq(alone.results, 1, n)
                  /\ runs[r].pc = "done" =>
                        /\ n = Len(alone.results)
                        /\ runs[r].ret = alone.ret

\* Two runs of two steps each, with a token, took turns step by step: run 1
\* failed its tool call and sent its mail, run 2 sent its mail and called its
\* tool; both have returned.
C32_Witness ==
    /\ runs # NoneObj
    /\ ACCESS_TOKEN = "tok"
    /\ \A r \in Runs : runs[r].pc = "done" /\ Len(runs[r].execution_results) = 2
    /\ Len(executed) = 8
    /\ \A k \in 1..8 : executed[k].run = IF k % 2 = 1 THEN 1 ELSE 2
    /\ runs[1].execution_results[1].status = "error"
    /\ runs[1].execution_results[2].status = "success"
    /\ runs[2].execution_plan.steps[1].intent = "communicate"
    /\ runs[2].ret.successful_steps = 2

-----------------------------------------------------------------------------
(* Properties of get_access_token, under SpecAuth *)

\* get_access_token read a user with both tokens whose access token is expired
\* or expires within the buffer, and the refresh request failed.
ExpiredAndRefreshFailed ==
    /\ fcall # NoneObj
    /\ fcall.fn = "get_access_token"
    /\ outcome # NoneObj
    /\ lookup_email_from_agents_table(fcall.auth_email, fcall.get_item).error = None
    /\ ~fcall.query.raised
    /\ fcall.query.response.Items # <<>>
    /\ LET user_data == fcall.query.response.Items[1]
       IN  /\ {"google_access_token", "refresh_token", "token_expires_at"}
                  \subseteq DOMAIN user_data
           /\ user_data.token_expires_at.kind = "naive"
           /\ user_data.token_expires_at.at <= fcall.now + BufferSeconds
    /\ fcall.refresh.error # None

\* C36: when the stored access token is expired, or expires within the 30
\* seconds of the buffer, and the refresh request fails, get_access_token raises
\* AuthenticationError with status 401 and does not return the stored token.
C36_FailedRefreshIsAnAuthenticationError ==
    ExpiredAndRefreshFailed =>
        /\ ~outcome.out.ok
        /\ outcome.out.status_code = 401

-----------------------------------------------------------------------------
(* Properties of invitation requests side by side, under SpecInvite *)

\* Request r was answered 200 with an agent_email.
Allocated(r) ==
    /\ requests[r].pc = "done"
    /\ requests[r].response.statusCode = 200

\* C37: for any interleaving of concurrent validate_invite requests, no two
\* different users are told the same agent_email, and an allocation record
\* that store_agent_email has written is never overwritten: it stays in the
\* table as it was written.
C37_AgentEmailsAreUnique ==
    /\ \A r1, r2 \in Requests :
          (r1 # r2 /\ Allocated(r1) /\ Allocated(r2))
              => requests[r1].response.body.user.agent_email
                     # requests[r2].response.body.user.agent_email
    /\ \A r \in Requests :
          requests[r].stored # NoneObj => requests[r].stored \in agents_table

-----------------------------------------------------------------------------
(* Properties of the gatekeeper, under SpecGatekeeper *)

GatekeeperReturned == fcall # NoneObj /\ fcall.fn = "gatekeeper" /\ outcome # NoneObj

\* An address of the exception list is among the addresses extracted from the
\* event.
ExceptionAddressExtracted ==
    check_exception_emails(fcall.exception_parts,
                           extract_email_addresses_from_event(fcall.event).addresses)

\* C38: for every inbound event from which at least one address of
\* GATEKEEPER_EXCEPTION_EMAILS is extracted, the gatekeeper returns the
\* disposition continue, whatever the size of the email and the contents of
\* the allocation table.
C38_ExceptionAddressesAlwaysPass ==
    (GatekeeperReturned /\ ExceptionAddressExtracted)
        => outcome.disposition = "continue"

\* An error met while the email was evaluated: in the size lookup, in the
\* address extraction or in the access to the allocation table.
ErrorWhileEvaluating ==
    outcome.extraction_error \/ outcome.size_error \/ outcome.table_error

\* C39: the gatekeeper fails closed: when an error occurs while it evaluates
\* the email it returns stop_rule_set, and it returns continue only when an
\* address of the exception list matched or an allocation record was found
\* for a @superagent.diy address.
C39_GatekeeperFailsClosed ==
    GatekeeperReturned =>
        /\ ErrorWhileEvaluating => outcome.disposition = "stop_rule_set"
        /\ outcome.disposition = "continue"
               => (outcome.exception_matched \/ outcome.allocation_found)

=============================================================================
